---- MODULE Spec2Model ----
(***************************************************************************)
(* Model of the IP resolution engine of nimble-streamer-log-analyzer:      *)
(* LocalIPDatabase (src/local_ip_database.py, the durable store ip_data)   *)
(* and EnhancedIPinfoService (src/enhanced_ipinfo_service.py: ephemeral    *)
(* cache, offline MMDB readers, online API, single and bulk resolution).   *)
(*                                                                         *)
(* A Python dict is a TLA+ function from its keys to its values; None and  *)
(* the empty dict, which every test of the code treats alike (both are     *)
(* falsy), are the function with the empty domain.  A datetime is a number *)
(* of days; a 'timestamp' value is a record that says whether it is a      *)
(* datetime object or its isoformat() string.  An IP string is the         *)
(* sequence of its dot-separated parts, NonNumeric standing for a part     *)
(* that int() rejects.                                                     *)
(***************************************************************************)
EXTENDS Integers, Sequences, FiniteSets, TLC

VARIABLES store, cache, cache_file, token, db_token, stats, now, world,
          call, prev, pre, bulk, ticks, lookups,
          db_lock, thr, finished, last, ops,
          temp_file, saver, file_complete, old_file, saves,
          svc, cache_lock, successes, mutated, done, calls,
          fn, arg, out

\* the service, its store and its surroundings, and the caller's view
svars == <<store, cache, cache_file, token, db_token, stats, now, world,
           call, prev, pre, bulk, ticks, lookups>>

\* the threads that work on the store, and its lock
dvars == <<db_lock, thr, finished, last, ops>>

\* the files of _save_cache and the thread that runs it
fvars == <<temp_file, saver, file_complete, old_file, saves>>

\* the threads inside the service, the cache lock, and what they have done
tvars == <<svc, cache_lock, successes, mutated, done, calls>>

\* the pure function applied last, its input and its result
pvars == <<fn, arg, out>>

vars == <<svars, dvars, fvars, tvars, pvars>>

----------------------------------------------------------------------------
(* Bounds of the model                                                     *)

\* number of IPs handed to get_ip_info and bulk_lookup in one behaviour,
\* a call with an empty list counting for one
MaxLookups == 2
\* number of clock advances in one behaviour
MaxTicks == 1

----------------------------------------------------------------------------
(* Program constants                                                       *)

\* self.cache_duration = timedelta(days=7)
CacheDays == 7

NonNumeric == -1

PrivateIP == <<172, 20, 5, 5>>
PublicA == <<8, 8, 8, 8>>
IPs == {PrivateIP, PublicA}
PublicIPs == {PublicA}

----------------------------------------------------------------------------
(* dict helpers                                                            *)

None == [k \in {} |-> "None"]

\* Python truthiness of a dict-or-None
Truthy(d) == DOMAIN d # {}

\* d.get(k, default)
Get(d, k, default) == IF k \in DOMAIN d THEN d[k] ELSE default

\* d.update(e), as a value
Update(d, e) == [k \in DOMAIN d \cup DOMAIN e |-> IF k \in DOMAIN e THEN e[k] ELSE d[k]]

\* d[k] = v, as a value
Put(d, k, v) == [x \in DOMAIN d \cup {k} |-> IF x = k THEN v ELSE d[x]]

\* del d[k], as a value
Del(d, k) == [x \in DOMAIN d \ {k} |-> d[x]]

\* the string fields of an IPRecord that a caller reads
StrFields == {"country", "country_code", "country_name", "continent",
              "continent_code", "region", "city", "asn", "as_name",
              "as_domain", "org", "timezone", "source"}

----------------------------------------------------------------------------
(* PrivateRangeClassifier: _is_private_ip, the same text in both classes   *)

IsPrivateIp(ip) ==
    IF \E i \in 1..Len(ip) : ip[i] = NonNumeric THEN FALSE      \* ValueError
    ELSE IF ip[1] = 10 THEN TRUE
    ELSE IF ip[1] = 172 /\ Len(ip) < 2 THEN FALSE               \* IndexError
    ELSE IF ip[1] = 172 /\ 16 <= ip[2] /\ ip[2] <= 31 THEN TRUE
    ELSE IF ip[1] = 192 /\ Len(ip) < 2 THEN FALSE               \* IndexError
    ELSE IF ip[1] = 192 /\ ip[2] = 168 THEN TRUE
    ELSE ip[1] = 127

----------------------------------------------------------------------------
(* The world outside the process: what each offline table and the online   *)
(* API answer for an IP.  It is fixed along a behaviour.                   *)

LiteFull ==
    [country |-> "United States", country_code |-> "US",
     continent |-> "North America", continent_code |-> "NA",
     asn |-> "AS15169", as_name |-> "Google LLC", as_domain |-> "google.com"]

\* a lite row that knows the network but no country
LiteAsnOnly ==
    [asn |-> "AS15169", as_name |-> "Google LLC", as_domain |-> "google.com"]

CountryHit ==
    [country |-> "US", country_name |-> "United States", country_code |-> "US"]

CityHit ==
    [region |-> "California", city |-> "Mountain View",
     timezone |-> "America/Los_Angeles"]

\* the JSON body of GET https://ipinfo.io/{ip}/json
OnlineFull(ip) ==
    [ip |-> ip, city |-> "Mountain View", region |-> "California",
     country |-> "US", org |-> "AS15169 Google LLC",
     timezone |-> "America/Los_Angeles"]

\* the body the API gives for an address it has no location for
OnlineBogon(ip) == [ip |-> ip, bogon |-> "true"]

LiteAnswers == {None, LiteFull, LiteAsnOnly}
CountryAnswers == {None, CountryHit}
CityAnswers == {None, CityHit}
OnlineAnswers(ip) == {None, OnlineFull(ip), OnlineBogon(ip)}

----------------------------------------------------------------------------
(* LocalIPDatabase: the durable store, table ip_data keyed by ip           *)

\* the row that _store_ip_data writes for ip at time t: the columns from
\* data, first_seen and last_updated at their default CURRENT_TIMESTAMP
IpDataRow(ip, data, t, query_count) ==
    [ip |-> ip,
     country |-> Get(data, "country", "Unknown"),
     country_code |-> Get(data, "country_code", "XX"),
     country_name |-> Get(data, "country_name", Get(data, "country", "Unknown")),
     continent |-> Get(data, "continent", "Unknown"),
     continent_code |-> Get(data, "continent_code", "XX"),
     region |-> Get(data, "region", "Unknown"),
     city |-> Get(data, "city", "Unknown"),
     asn |-> Get(data, "asn", "Unknown"),
     as_name |-> Get(data, "as_name", "Unknown"),
     as_domain |-> Get(data, "as_domain", "unknown"),
     org |-> Get(data, "org", "Unknown"),
     isp |-> Get(data, "isp", Get(data, "org", "Unknown")),
     timezone |-> Get(data, "timezone", "Unknown"),
     is_private |-> Get(data, "is_private", 0),
     source |-> Get(data, "source", "unknown"),
     first_seen |-> t,
     last_updated |-> t,
     query_count |-> query_count]

\* INSERT OR REPLACE without the COALESCE of line 312: the new row takes
\* the column default of query_count
StoreIpDataCountReset(st, ip, data, t) == Put(st, ip, IpDataRow(ip, data, t, 1))

\* _store_ip_data: INSERT OR REPLACE of the whole row at time t; the new row
\* takes the old query_count plus one (COALESCE(SELECT query_count, 0) + 1)
StoreIpData(st, ip, data, t) ==
    Put(st, ip, IpDataRow(ip, data, t,
                          (IF ip \in DOMAIN st THEN st[ip]["query_count"] ELSE 0) + 1))

\* the record LocalIPDatabase.get_ip_info synthesizes for a private address
PrivateInfo(ip) ==
    [ip |-> ip, country |-> "Private", country_code |-> "PRIVATE",
     country_name |-> "Private Network", continent |-> "Private",
     continent_code |-> "PRIVATE", region |-> "Private",
     city |-> "Private Network", asn |-> "Private",
     as_name |-> "Private Network", as_domain |-> "private",
     org |-> "Private Network", isp |-> "Private Network",
     timezone |-> "Unknown", is_private |-> 1, source |-> "private"]

\* the fields _get_mmdb_data takes from a row of the lite table
MmdbFields(data) ==
    IF Truthy(data)
    THEN [country |-> Get(data, "country", "Unknown"),
          country_code |-> Get(data, "country_code", "XX"),
          continent |-> Get(data, "continent", "Unknown"),
          continent_code |-> Get(data, "continent_code", "XX"),
          asn |-> Get(data, "asn", "Unknown"),
          as_name |-> Get(data, "as_name", "Unknown"),
          as_domain |-> Get(data, "as_domain", "unknown"),
          source |-> "mmdb"]
    ELSE None

\* LocalIPDatabase._get_mmdb_data: the lite table read by the store's own reader
GetMmdbData(w, ip) == MmdbFields(IF w.lite_reader THEN w.lite[ip] ELSE None)

\* the fields _get_ipinfo_data takes from the JSON answer of the API
IpinfoFields(data) ==
    [country |-> Get(data, "country_name", Get(data, "country", "Unknown")),
     country_code |-> Get(data, "country", "XX"),
     region |-> Get(data, "region", "Unknown"),
     city |-> Get(data, "city", "Unknown"),
     org |-> Get(data, "org", "Unknown"),
     asn |-> Get(data, "asn", "Unknown"),
     timezone |-> Get(data, "timezone", "Unknown"),
     source |-> "ipinfo_api"]

\* LocalIPDatabase._get_ipinfo_data: the online API asked with the store's own token
GetIpinfoData(w, ip, tok) ==
    IF ~tok \/ ~Truthy(w.online[ip]) THEN None ELSE IpinfoFields(w.online[ip])

default_fields ==
    [country |-> "Unknown", country_code |-> "XX", country_name |-> "Unknown",
     continent |-> "Unknown", continent_code |-> "XX", region |-> "Unknown",
     city |-> "Unknown", asn |-> "Unknown", as_name |-> "Unknown",
     as_domain |-> "unknown", org |-> "Unknown", isp |-> "Unknown",
     timezone |-> "Unknown", source |-> "unknown"]

\* lines 251-264: ip_info updated with the lite fields, then with the API
\* fields; both together give the combined source
MergeSources(ip_info, mmdb_data, ipinfo_data) ==
    IF Truthy(ipinfo_data)
    THEN IF Truthy(mmdb_data)
         THEN Put(Update(Update(ip_info, mmdb_data), ipinfo_data),
                  "source", "mmdb+ipinfo_api")
         ELSE Update(Update(ip_info, mmdb_data), ipinfo_data)
    ELSE Update(ip_info, mmdb_data)

\* lines 266-286: a field that is missing or empty takes its default
FillDefaults(ip_info) ==
    [k \in DOMAIN ip_info \cup DOMAIN default_fields |->
        IF k \in DOMAIN ip_info /\ ~(k \in DOMAIN default_fields /\ ip_info[k] = "")
        THEN ip_info[k] ELSE default_fields[k]]

\* lines 288-292: isp made from org or from the network name
IspField(ip_info) ==
    IF ip_info["isp"] = "Unknown" /\ ip_info["org"] # "Unknown"
    THEN Put(ip_info, "isp", ip_info["org"])
    ELSE IF ip_info["isp"] = "Unknown" /\ ip_info["as_name"] # "Unknown"
    THEN Put(ip_info, "isp", ip_info["as_name"] \o " (" \o ip_info["asn"] \o ")")
    ELSE ip_info

\* lines 250-292 of LocalIPDatabase.get_ip_info: the record built for an IP
\* that is not in the table, from the lite table and the API, defaults filled
LocalResolve(ip, w, tok) ==
    IspField(FillDefaults(MergeSources([ip |-> ip, is_private |-> 0],
                                       GetMmdbData(w, ip),
                                       GetIpinfoData(w, ip, tok))))

\* lines 226-248 without the UPDATE of lines 238-243
StoreHitCountKept(st, ip, t) ==
    [ret |-> Put(st[ip], "from_cache", TRUE), store |-> st, reads |-> {}]

\* lines 226-248: the row of a stored IP is returned and its query_count
\* and last_updated are brought up to date
StoreHit(st, ip, t) ==
    [ret |-> Put(st[ip], "from_cache", TRUE),
     store |-> [st EXCEPT ![ip] =
                   [@ EXCEPT !["query_count"] = @ + 1, !["last_updated"] = t]],
     reads |-> {}]

\* lines 294-297: the resolved record is stored and returned
StoreMiss(st, ip, t, w, tok, ip_info) ==
    [ret |-> ip_info,
     store |-> StoreIpData(st, ip, ip_info, t),
     reads |-> (IF w.lite_reader THEN {<<"lite", ip>>} ELSE {})
               \cup (IF tok THEN {<<"online", ip>>} ELSE {})]

\* LocalIPDatabase.get_ip_info with the private-range test of lines 201-223
\* left out: a private address is looked up like any other
LocalGetIpInfoNoPrivateTest(st, ip, t, w, tok) ==
    IF ip \in DOMAIN st THEN StoreHit(st, ip, t)
    ELSE StoreMiss(st, ip, t, w, tok, LocalResolve(ip, w, tok))

\* LocalIPDatabase.get_ip_info(ip) at time t (force_refresh = False).
\* ret is the dict returned, store the table afterwards, reads the external
\* sources consulted.
LocalGetIpInfo(st, ip, t, w, tok) ==
    IF IsPrivateIp(ip)
    THEN [ret |-> PrivateInfo(ip),
          store |-> StoreIpData(st, ip, PrivateInfo(ip), t),
          reads |-> {}]
    ELSE IF ip \in DOMAIN st THEN StoreHit(st, ip, t)
    ELSE StoreMiss(st, ip, t, w, tok, LocalResolve(ip, w, tok))

----------------------------------------------------------------------------
(* EnhancedIPinfoService: tiers                                            *)

\* a datetime object and the string isoformat() makes of it
Datetime(t) == [kind |-> "datetime", t |-> t]
IsoFormat(d) == [kind |-> "str", t |-> d.t]
\* datetime.fromisoformat
FromIsoFormat(s) == [kind |-> "datetime", t |-> s.t]

NotAvailable == "Not Available (Lite DB)"

\* the record _get_offline_info synthesizes for a private address
OfflinePrivate(ip) ==
    [ip |-> ip, country |-> "Private", country_name |-> "Private Network",
     country_code |-> "PRIVATE", region |-> "Private Network",
     city |-> "Private Network", org |-> "Private Network", asn |-> "Private",
     as_name |-> "Private Network", as_domain |-> "private",
     continent |-> "Private", continent_code |-> "PRIVATE",
     timezone |-> "Unknown", source |-> "offline_private"]

\* the fields _get_offline_info takes from a row of the lite table
LiteFields(lite_data) ==
    LET as_name == Get(lite_data, "as_name", "Unknown")
        asn == Get(lite_data, "asn", "Unknown")
    IN [country |-> Get(lite_data, "country", "Unknown"),
        country_name |-> Get(lite_data, "country", "Unknown"),
        country_code |-> Get(lite_data, "country_code", "Unknown"),
        continent |-> Get(lite_data, "continent", "Unknown"),
        continent_code |-> Get(lite_data, "continent_code", "Unknown"),
        asn |-> asn,
        as_name |-> as_name,
        as_domain |-> Get(lite_data, "as_domain", "Unknown"),
        org |-> IF as_name # "Unknown" THEN as_name \o " (" \o asn \o ")" ELSE "Unknown",
        region |-> NotAvailable,
        city |-> NotAvailable,
        timezone |-> "Unknown"]

\* any(k in info and info[k] not in ['Unknown', 'Not Available (Lite DB)'] for k in keys)
Meaningful(info, keys) ==
    \E k \in keys : k \in DOMAIN info /\ info[k] \notin {"Unknown", NotAvailable}

\* the defaults _get_offline_info fills in after the fallback tables
OfflineDefaults ==
    [asn |-> "Unknown", as_name |-> "Unknown", as_domain |-> "Unknown",
     continent |-> "Unknown", continent_code |-> "Unknown",
     region |-> "Unknown", city |-> "Unknown", org |-> "Unknown"]

\* lines 190-220: the record started from a row of the lite table
LiteInfo(ip, lite_data) ==
    IF Truthy(lite_data)
    THEN Update([ip |-> ip, source |-> "offline"], LiteFields(lite_data))
    ELSE [ip |-> ip, source |-> "offline"]

\* lines 223-228: the country table
CountryFields(info, country_data) ==
    IF Truthy(country_data)
    THEN Update(info,
           [country |-> Get(country_data, "country", "Unknown"),
            country_name |-> Get(country_data, "country_name", "Unknown"),
            country_code |-> Get(country_data, "country_code", "XX")])
    ELSE info

\* lines 230-235: the city table
CityFields(info, city_data) ==
    IF Truthy(city_data)
    THEN Update(info,
           [region |-> Get(city_data, "region", "Unknown"),
            city |-> Get(city_data, "city", "Unknown"),
            timezone |-> Get(city_data, "timezone", "Unknown")])
    ELSE info

\* line 251: the record is returned only if it holds data
OnlyMeaningful(info) ==
    IF Meaningful(info, {"country", "city", "asn"}) THEN info ELSE None

\* the tables consulted for ip; the country and city tables only after the
\* lite table
TablesRead(w, ip, fallbackTables) ==
    (IF w.lite_reader THEN {<<"lite", ip>>} ELSE {})
    \cup (IF fallbackTables /\ w.country_reader THEN {<<"country", ip>>} ELSE {})
    \cup (IF fallbackTables /\ w.city_reader THEN {<<"city", ip>>} ELSE {})

\* lines 190-251 for a public address, info being the record after the
\* lite table
OfflineTables(w, ip, lite_data, info) ==
    IF Truthy(lite_data) /\ Meaningful(info, {"country", "asn", "as_name"})
    THEN [ret |-> info, reads |-> TablesRead(w, ip, FALSE)]
    ELSE [ret |-> OnlyMeaningful(Update(OfflineDefaults,
                     CityFields(CountryFields(info,
                                    IF w.country_reader THEN w.country[ip] ELSE None),
                                IF w.city_reader THEN w.city[ip] ELSE None))),
          reads |-> TablesRead(w, ip, TRUE)]

\* EnhancedIPinfoService._get_offline_info; ret is None or a record, reads
\* the tables consulted
GetOfflineInfo(w, ip) ==
    IF IsPrivateIp(ip) THEN [ret |-> OfflinePrivate(ip), reads |-> {}]
    ELSE OfflineTables(w, ip, IF w.lite_reader THEN w.lite[ip] ELSE None,
                       LiteInfo(ip, IF w.lite_reader THEN w.lite[ip] ELSE None))

\* EnhancedIPinfoService._get_online_info: token-gated; None on any failure
GetOnlineInfo(w, ip, tok) ==
    IF ~tok THEN [ret |-> None, reads |-> {}]
    ELSE [ret |-> IF Truthy(w.online[ip])
                  THEN Put(w.online[ip], "source", "online")
                  ELSE None,
          reads |-> {<<"online", ip>>}]

\* the canonical fallback record
Fallback(ip) ==
    [ip |-> ip, country |-> "Unknown", country_name |-> "Unknown",
     country_code |-> "XX", region |-> "Unknown", city |-> "Unknown",
     org |-> "Unknown", asn |-> "Unknown", as_name |-> "Unknown",
     as_domain |-> "Unknown", continent |-> "Unknown",
     continent_code |-> "XX", timezone |-> "Unknown", source |-> "fallback"]

\* a stats counter plus one
Bump(st, k) == [st EXCEPT ![k] = @ + 1]

\* the document _save_cache writes: every datetime timestamp as its string
Serialize(c) ==
    [ip \in DOMAIN c |->
        IF "timestamp" \in DOMAIN c[ip] /\ c[ip]["timestamp"].kind = "datetime"
        THEN Put(c[ip], "timestamp", IsoFormat(c[ip]["timestamp"]))
        ELSE c[ip]]

----------------------------------------------------------------------------
(* EnhancedIPinfoService.get_ip_info                                       *)

\* The service's mutable state is S = [store, cache, stats]; its
\* surroundings are e = [now, world, token, db_token].  The result says
\* whether the call returned or raised, what it returned, the tier that
\* answered, the state it left and the external sources it consulted.

\* line 314: the online API is asked when the offline tier gave nothing (or
\* a record of source 'offline' without org)
NeedOnline(ip_info) ==
    \/ ~Truthy(ip_info)
    \/ Get(ip_info, "source", "") = "offline" /\ Get(ip_info, "org", "") = ""

\* lines 316-321: the online answer laid over the offline record
Merge(ip_info, online_info) ==
    IF Truthy(online_info)
    THEN IF Truthy(ip_info) THEN Update(ip_info, online_info) ELSE online_info
    ELSE ip_info

\* lines 323-340
OrFallback(ip, ip_info) == IF Truthy(ip_info) THEN ip_info ELSE Fallback(ip)

\* steps 6 and 7 (lines 342-352): store unless fallback, stamp with the
\* isoformat string, write through to the cache, save, return
StoreAndCache(st, ch, sts, ip, e, reads, ip_info) ==
    [status |-> "returned",
     ret |-> Put(ip_info, "timestamp", IsoFormat(Datetime(e.now))),
     tier |-> "resolved",
     store |-> IF Get(ip_info, "source", "") # "fallback"
               THEN StoreIpData(st, ip, ip_info, e.now)
               ELSE st,
     cache |-> Put(ch, ip, Put(ip_info, "timestamp", IsoFormat(Datetime(e.now)))),
     stats |-> sts, reads |-> reads, saves |-> 1]

\* steps 4-7, off being the outcome of the offline tier
AfterOffline(st, ch, sts, ip, e, reads, off, onl) ==
    StoreAndCache(st, ch, sts, ip, e, reads \cup off.reads \cup onl.reads,
                  OrFallback(ip, Merge(off.ret, onl.ret)))

\* steps 3-7 of get_ip_info (lines 310-352): offline, online, fallback,
\* store, cache write-through and save
ResolveAndCache(st, ch, sts, ip, e, reads, off) ==
    AfterOffline(st, ch, sts, ip, e, reads, off,
                 IF NeedOnline(off.ret) THEN GetOnlineInfo(e.world, ip, e.token)
                 ELSE [ret |-> None, reads |-> {}])

\* steps 1-7, loc being the outcome of local_db.get_ip_info (line 293)
AfterStore(S, ip, e, loc) ==
    IF Truthy(loc.ret) /\ Get(loc.ret, "country", "") # "Unknown"
    THEN [status |-> "returned", ret |-> loc.ret, tier |-> "store",
          store |-> loc.store, cache |-> S.cache,
          stats |-> Bump(S.stats, "local_db_hits"),
          reads |-> loc.reads, saves |-> 0]
    ELSE IF ip \in DOMAIN S.cache /\ "timestamp" \in DOMAIN S.cache[ip]
            /\ S.cache[ip]["timestamp"].kind = "str"
    THEN \* datetime.now() - str: TypeError leaves get_ip_info
         [status |-> "raised", ret |-> None, tier |-> "none",
          store |-> loc.store, cache |-> S.cache, stats |-> S.stats,
          reads |-> loc.reads, saves |-> 0]
    ELSE IF ip \in DOMAIN S.cache /\ "timestamp" \in DOMAIN S.cache[ip]
            /\ e.now - S.cache[ip]["timestamp"].t < CacheDays
    THEN [status |-> "returned", ret |-> S.cache[ip], tier |-> "cache",
          store |-> loc.store, cache |-> S.cache,
          stats |-> Bump(S.stats, "cache_hits"),
          reads |-> loc.reads, saves |-> 0]
    ELSE ResolveAndCache(loc.store,
                         IF ip \in DOMAIN S.cache THEN Del(S.cache, ip) ELSE S.cache,
                         S.stats, ip, e, loc.reads, GetOfflineInfo(e.world, ip))

GetIpInfo(S, ip, e) ==
    AfterStore(S, ip, e, LocalGetIpInfo(S.store, ip, e.now, e.world, e.db_token))

----------------------------------------------------------------------------
(* EnhancedIPinfoService.bulk_lookup                                       *)

\* The running state of the first pass is
\* B = [store, cache, stats, results, online_ips, reads, status].

\* step 3 of the first pass (lines 398-414), off being the outcome of
\* _get_offline_info and info its record stamped with datetime.now()
PhaseAOffline(B, ip, e, off, info) ==
    IF Truthy(off.ret)
       /\ (\/ Get(off.ret, "source", "") = "offline_private"
           \/ Get(off.ret, "country", "Unknown") # "Unknown")
    THEN [B EXCEPT !.reads = @ \cup off.reads,
                   !.results = Put(@, ip, info),
                   !.stats = Bump(@, "offline_hits"),
                   !.store = StoreIpData(@, ip, info, e.now),
                   !.cache = Put(@, ip, info)]
    ELSE [B EXCEPT !.reads = @ \cup off.reads,
                   !.online_ips = Append(@, ip)]

\* steps 1-3 of the first pass, B holding the store as local_db.get_ip_info
\* left it and local_info being its answer
PhaseACache(B, ip, e, local_info, off) ==
    IF Truthy(local_info) /\ Get(local_info, "country", "") # "Unknown"
    THEN [B EXCEPT !.results = Put(@, ip, local_info),
                   !.stats = Bump(@, "local_db_hits")]
    ELSE IF ip \in DOMAIN B.cache /\ "timestamp" \in DOMAIN B.cache[ip]
            /\ B.cache[ip]["timestamp"].kind = "str"
    THEN [B EXCEPT !.status = "raised"]            \* TypeError
    ELSE IF ip \in DOMAIN B.cache /\ "timestamp" \in DOMAIN B.cache[ip]
            /\ e.now - B.cache[ip]["timestamp"].t < CacheDays
    THEN [B EXCEPT !.results = Put(@, ip, B.cache[ip]),
                   !.stats = Bump(@, "cache_hits")]
    ELSE PhaseAOffline([B EXCEPT !.cache = IF ip \in DOMAIN @ THEN Del(@, ip) ELSE @],
                       ip, e, off, Put(off.ret, "timestamp", Datetime(e.now)))

\* line 379
PhaseAStore(B, ip, e, loc) ==
    PhaseACache([B EXCEPT !.store = loc.store, !.reads = @ \cup loc.reads],
                ip, e, loc.ret, GetOfflineInfo(e.world, ip))

\* One iteration of the first pass (lines 374-414)
PhaseAStep(B, ip, e) ==
    PhaseAStore(B, ip, e, LocalGetIpInfo(B.store, ip, e.now, e.world, e.db_token))

RECURSIVE PhaseA(_, _, _)
PhaseA(B, ip_list, e) ==
    IF ip_list = <<>> \/ B.status = "raised" THEN B
    ELSE PhaseA(PhaseAStep(B, Head(ip_list), e), Tail(ip_list), e)

\* lines 421-428, onl being the outcome of _get_online_info
Fetched(S, ip, e, onl) ==
    IF Truthy(onl.ret)
    THEN [info |-> Put(onl.ret, "timestamp", Datetime(e.now)),
          store |-> StoreIpData(S.store, ip,
                                Put(onl.ret, "timestamp", Datetime(e.now)), e.now),
          stats |-> Bump(S.stats, "online_hits"),
          reads |-> onl.reads]
    ELSE [info |-> None, store |-> S.store, stats |-> S.stats, reads |-> onl.reads]

\* _get_online_info when the request times out or the status is not 200
\* (lines 271-277)
RequestFailed(ip) == [ret |-> None, reads |-> {<<"online", ip>>}]

\* fetch_online (lines 420-428), run by a pool worker: the info it returns
\* (None for a failed lookup) and the state it leaves; ok says whether this
\* request of the batch gets its answer
FetchOnline(S, ip, e, ok) ==
    Fetched(S, ip, e, IF ok THEN GetOnlineInfo(e.world, ip, e.token)
                      ELSE RequestFailed(ip))

\* the body of the as_completed loop (lines 434-458) for one finished future
CollectOne(results, ch, ip, info, t) ==
    IF Truthy(info)
    THEN [results |-> Put(results, ip, info), cache |-> Put(ch, ip, info)]
    ELSE [results |-> Put(results, ip, Put(Fallback(ip), "timestamp", Datetime(t))),
          cache |-> ch]

\* bulk_lookup without its final fill-in loop
FillMissingSkipped(results, ip_list, t) == results

\* lines 460-479: every input IP without a result gets the fallback record
FillMissing(results, ip_list, t) ==
    [ip \in DOMAIN results \cup {ip_list[i] : i \in 1..Len(ip_list)} |->
        IF ip \in DOMAIN results THEN results[ip]
        ELSE Put(Fallback(ip), "timestamp", Datetime(t))]

----------------------------------------------------------------------------
(* State                                                                   *)

\* sources that are never consulted for an IP are left at None: a full lite
\* row answers in the store's own resolution, a lite row with a network
\* answers _get_offline_info before the country and city tables are read
Consulted(l, c, y) ==
    /\ l = LiteFull => c = None /\ y = None
    /\ l = LiteAsnOnly => c = None /\ y = None

Scenarios(ip) ==
    {sc \in [lite : LiteAnswers, country : CountryAnswers,
             city : CityAnswers, online : OnlineAnswers(ip)] :
        /\ Consulted(sc.lite, sc.country, sc.city)
        /\ sc.lite = LiteFull => sc.online = None}

NoData == [lite |-> None, country |-> None, city |-> None, online |-> None]

\* a reader is open when its file exists; a table that has no row for any
\* IP of the model behaves as an absent file
WorldOf(sc) ==
    [lite_reader |-> \E ip \in IPs : Truthy(sc[ip].lite),
     country_reader |-> \E ip \in IPs : Truthy(sc[ip].country),
     city_reader |-> \E ip \in IPs : Truthy(sc[ip].city),
     lite |-> [ip \in IPs |-> sc[ip].lite],
     country |-> [ip \in IPs |-> sc[ip].country],
     city |-> [ip \in IPs |-> sc[ip].city],
     online |-> [ip \in IPs |-> sc[ip].online]]

Worlds ==
    {WorldOf(sc) : sc \in {f \in [IPs -> UNION {Scenarios(ip) : ip \in IPs} \cup {NoData}] :
        \A ip \in IPs : IF ip \in PublicIPs THEN f[ip] \in Scenarios(ip)
                        ELSE f[ip] = NoData}}

\* writes counts the times the call has written the cache file
NoCall == [op |-> "none", arg |-> <<>>, status |-> "none", ret |-> None,
           results |-> None, tier |-> "none", reads |-> {}, writes |-> 0]

BulkIdle == [pc |-> "idle", ip_list |-> <<>>, results |-> None,
             online_ips |-> <<>>, futures |-> <<>>]

Env == [now |-> now, world |-> world, token |-> token # "", db_token |-> db_token # ""]

\* no thread is at work on the store
NoDbThreads ==
    /\ db_lock = 0
    /\ thr = [t \in {} |-> 0]
    /\ finished = None
    /\ last = None
    /\ ops = 0

\* no temp file; no _save_cache has run
NoTemp == [exists |-> FALSE, keys |-> {}, complete |-> FALSE]

NoSave ==
    /\ temp_file = NoTemp
    /\ saver = [pc |-> "idle", to_save |-> None]
    /\ file_complete = TRUE
    /\ old_file = None
    /\ saves = 0

NoMutation == [kind |-> "none", by |-> 0, lock |-> 0]

\* no thread is inside the service
NoCallers ==
    /\ svc = [t \in {} |-> 0]
    /\ cache_lock = 0
    /\ successes = 0
    /\ mutated = NoMutation
    /\ done = {}
    /\ calls = 0

\* no pure function has been applied
NoFunc ==
    /\ fn = "none"
    /\ arg = None
    /\ out = None

Init ==
    /\ store = None
    /\ cache = None
    /\ cache_file = None
    /\ token = ""
    /\ db_token = ""
    /\ stats = [offline_hits |-> 0, online_hits |-> 0, cache_hits |-> 0,
                local_db_hits |-> 0, errors |-> 0]
    /\ now = 0
    /\ world \in Worlds
    /\ call = NoCall
    /\ prev = NoCall
    /\ pre = [store |-> None, cache |-> None, token |-> "", now |-> 0]
    /\ bulk = BulkIdle
    /\ ticks = 0
    /\ lookups = 0
    /\ NoDbThreads
    /\ NoSave
    /\ NoCallers
    /\ NoFunc

Snapshot == [store |-> store, cache |-> cache, token |-> token, now |-> now]

----------------------------------------------------------------------------
(* Operations                                                              *)

\* the state get_ip_info leaves and what the caller sees, r being its outcome
GetIpInfoEffect(ip, r) ==
    /\ store' = r.store
    /\ cache' = r.cache
    /\ stats' = r.stats
    /\ cache_file' = IF r.saves > 0 THEN Serialize(r.cache) ELSE cache_file
    /\ call' = [op |-> "single", arg |-> <<ip>>, status |-> r.status,
                ret |-> r.ret, results |-> None, tier |-> r.tier,
                reads |-> r.reads, writes |-> r.saves]

\* EnhancedIPinfoService.get_ip_info(ip), synchronous in the caller's thread
GetIpInfoCall(ip) ==
    /\ bulk.pc = "idle"
    /\ lookups < MaxLookups
    /\ GetIpInfoEffect(ip, GetIpInfo([store |-> store, cache |-> cache,
                                      stats |-> stats], ip, Env))
    /\ prev' = call
    /\ pre' = Snapshot
    /\ lookups' = lookups + 1
    /\ UNCHANGED <<token, db_token, now, world, bulk, ticks>>
    /\ UNCHANGED <<dvars, fvars, tvars, pvars>>

\* the end of bulk_lookup (lines 460-487): fill in, save the cache, return
BulkReturn(results, ch, ip_list, reads) ==
    /\ cache' = ch
    /\ cache_file' = Serialize(ch)
    /\ call' = [op |-> "bulk", arg |-> ip_list, status |-> "returned",
                ret |-> None, results |-> FillMissing(results, ip_list, now),
                tier |-> "none", reads |-> reads, writes |-> 1]
    /\ bulk' = BulkIdle

\* bulk_lookup after its first pass, B being the state the pass left: the
\* exception leaves the call, or the online_ips go to the worker pool
\* (line 417), or the call ends
AfterPhaseA(ip_list, B) ==
    /\ store' = B.store
    /\ stats' = B.stats
    /\ IF B.status = "raised"
       THEN /\ cache' = B.cache
            /\ call' = [op |-> "bulk", arg |-> ip_list,
                        status |-> "raised", ret |-> None,
                        results |-> None, tier |-> "none",
                        reads |-> B.reads, writes |-> 0]
            /\ UNCHANGED <<cache_file, bulk>>
       ELSE IF B.online_ips # <<>> /\ token # ""
       THEN /\ cache' = B.cache
            /\ call' = [op |-> "bulk", arg |-> ip_list,
                        status |-> "running", ret |-> None,
                        results |-> None, tier |-> "none",
                        reads |-> B.reads, writes |-> 0]
            /\ bulk' = [pc |-> "phaseB", ip_list |-> ip_list,
                        results |-> B.results,
                        online_ips |-> B.online_ips,
                        futures |-> [i \in 1..Len(B.online_ips) |->
                             [state |-> "pending", info |-> None]]]
            /\ UNCHANGED cache_file
       ELSE BulkReturn(B.results, B.cache, ip_list, B.reads)

\* EnhancedIPinfoService.bulk_lookup(ip_list): the first pass, then either
\* the end of the call or the hand-over of online_ips to the worker pool
BulkLookup(ip_list) ==
    /\ bulk.pc = "idle"
    /\ lookups + Len(ip_list) <= MaxLookups
    /\ lookups < MaxLookups
    /\ prev' = call
    /\ pre' = Snapshot
    /\ lookups' = lookups + (IF ip_list = <<>> THEN 1 ELSE Len(ip_list))
    /\ UNCHANGED <<token, db_token, now, world, ticks>>
    /\ UNCHANGED <<dvars, fvars, tvars, pvars>>
    /\ IF ip_list = <<>>
       THEN /\ call' = [op |-> "bulk", arg |-> ip_list, status |-> "returned",
                        ret |-> None, results |-> None, tier |-> "none",
                        reads |-> {}, writes |-> 0]
            /\ UNCHANGED <<store, cache, cache_file, stats, bulk>>
       ELSE AfterPhaseA(ip_list,
                        PhaseA([store |-> store, cache |-> cache, stats |-> stats,
                                results |-> None, online_ips |-> <<>>,
                                reads |-> {}, status |-> "running"],
                               ip_list, Env))

\* the state fetch_online leaves and the future it completes, r being its
\* outcome
WorkerEffect(i, r) ==
    /\ store' = r.store
    /\ stats' = r.stats
    /\ bulk' = [bulk EXCEPT !.futures[i] = [state |-> "done", info |-> r.info]]
    /\ call' = [call EXCEPT !.reads = @ \cup r.reads]

\* a pool worker runs fetch_online for one submitted IP
Worker(i, ok) ==
    /\ bulk.pc = "phaseB"
    /\ bulk.futures[i].state = "pending"
    /\ WorkerEffect(i, FetchOnline([store |-> store, stats |-> stats],
                                   bulk.online_ips[i], Env, ok))
    /\ UNCHANGED <<cache, cache_file, token, db_token, now, world, prev, pre, ticks, lookups>>
    /\ UNCHANGED <<dvars, fvars, tvars, pvars>>

\* the results and the cache after one future, c, is taken: the call goes
\* on with the next future or, after the last one, ends
CollectEffect(i, c) ==
    IF \A j \in DOMAIN bulk.futures : j # i => bulk.futures[j].state = "collected"
    THEN BulkReturn(c.results, c.cache, bulk.ip_list, call.reads)
    ELSE /\ cache' = c.cache
         /\ bulk' = [bulk EXCEPT !.results = c.results,
                                 !.futures[i].state = "collected"]
         /\ UNCHANGED <<cache_file, call>>

\* the caller's thread takes one finished future from as_completed; after
\* the last one it leaves the pool and ends the call
Collect(i) ==
    /\ bulk.pc = "phaseB"
    /\ bulk.futures[i].state = "done"
    /\ CollectEffect(i, CollectOne(bulk.results, cache, bulk.online_ips[i],
                                   bulk.futures[i].info, now))
    /\ UNCHANGED <<store, stats, token, db_token, now, world, prev, pre, ticks, lookups>>
    /\ UNCHANGED <<dvars, fvars, tvars, pvars>>

\* EnhancedIPinfoService.set_ipinfo_token
SetIpinfoToken(tok) ==
    /\ bulk.pc = "idle"
    /\ token # tok
    /\ token' = tok
    /\ call' = NoCall
    /\ prev' = NoCall
    /\ UNCHANGED <<store, cache, cache_file, db_token, stats, now, world, pre, bulk, ticks, lookups>>
    /\ UNCHANGED <<dvars, fvars, tvars, pvars>>

\* the clock moves on by d days; a batch, whose requests time out after
\* seconds, does not span days
Tick(d) ==
    /\ bulk.pc = "idle"
    /\ ticks < MaxTicks
    /\ now' = now + d
    /\ ticks' = ticks + 1
    /\ UNCHANGED <<store, cache, cache_file, token, db_token, stats, world,
                   call, prev, pre, bulk, lookups>>
    /\ UNCHANGED <<dvars, fvars, tvars, pvars>>

\* every list of at most n IPs
RECURSIVE Lists(_)
Lists(n) ==
    IF n = 0 THEN {<<>>}
    ELSE Lists(n - 1) \cup {Append(l, ip) : l \in {x \in Lists(n - 1) : Len(x) = n - 1}, ip \in IPs}

Next ==
    \/ \E ip \in IPs : GetIpInfoCall(ip)
    \/ \E ip_list \in Lists(MaxLookups - lookups) : BulkLookup(ip_list)
    \/ \E i \in DOMAIN bulk.futures, ok \in BOOLEAN : Worker(i, ok)
    \/ \E i \in DOMAIN bulk.futures : Collect(i)
    \/ \E tok \in {"secret"} : SetIpinfoToken(tok)
    \/ \E d \in {CacheDays - 1, CacheDays} : Tick(d)

Spec == Init /\ [][Next]_vars

----------------------------------------------------------------------------
(* LocalIPDatabase under concurrent callers                                *)

\* Threads call get_ip_info, _store_ip_data and cleanup_old_entries on one
\* LocalIPDatabase.  Every SQL statement runs inside `with self.db_lock`;
\* a thread's steps are the taking of the lock, each statement, the
\* release, and the resolution from external sources, which get_ip_info
\* does between its two critical sections.

\* number of threads
NThreads == 2
\* number of store operations begun in one behaviour
MaxStoreOps == 4

\* cleanup_old_entries(days_old = 30)
CleanupDays == 30

Threads == 1..NThreads

IdleThread == [op |-> "none", pc |-> "idle", ip |-> <<>>, data |-> None,
               row |-> None, before |-> 0]

\* the data Enhanced hands to _store_ip_data in this model
StoredData(ip) == Put(OnlineFull(ip), "source", "online")

\* the table after DELETE FROM ip_data WHERE last_updated < cutoff_date
CleanupOldEntries(st, t, days_old) ==
    [ip \in {i \in DOMAIN st : ~(st[i]["last_updated"] < t - days_old)} |-> st[ip]]

\* the rows as they were before the step, a deleted row staying as it was
Remembered == [ip \in DOMAIN store \cup DOMAIN last |->
                  IF ip \in DOMAIN store THEN store[ip] ELSE last[ip]]

StoreInit ==
    /\ store = None
    /\ cache = None
    /\ cache_file = None
    /\ token = ""
    /\ db_token = ""
    /\ stats = [offline_hits |-> 0, online_hits |-> 0, cache_hits |-> 0,
                local_db_hits |-> 0, errors |-> 0]
    /\ now = 0
    /\ world = WorldOf([ip \in IPs |-> NoData])
    /\ call = NoCall
    /\ prev = NoCall
    /\ pre = [store |-> None, cache |-> None, token |-> "", now |-> 0]
    /\ bulk = BulkIdle
    /\ ticks = 0
    /\ lookups = 0
    /\ db_lock = 0
    /\ thr = [t \in Threads |-> IdleThread]
    /\ finished = [ip \in IPs |-> 0]
    /\ last = None
    /\ ops = 0
    /\ NoSave
    /\ NoCallers
    /\ NoFunc

\* what the store threads never touch
StoreFrame ==
    UNCHANGED <<cache, cache_file, token, db_token, stats, world, call, prev,
                pre, bulk, lookups, fvars, tvars, pvars>>

\* a thread enters get_ip_info(ip): a private address goes straight to
\* _store_ip_data (lines 201-223), any other to the SELECT (line 227)
BeginGet(t, ip) ==
    /\ thr[t].pc = "idle"
    /\ ops < MaxStoreOps
    /\ ops' = ops + 1
    /\ thr' = [thr EXCEPT ![t] =
                 IF IsPrivateIp(ip)
                 THEN [IdleThread EXCEPT !.op = "get", !.pc = "store_wait", !.ip = ip,
                                         !.data = PrivateInfo(ip)]
                 ELSE [IdleThread EXCEPT !.op = "get", !.pc = "get_wait", !.ip = ip]]
    /\ UNCHANGED <<store, now, ticks, db_lock, finished, last>>
    /\ StoreFrame

\* a thread enters _store_ip_data(ip, data)
BeginStore(t, ip) ==
    /\ thr[t].pc = "idle"
    /\ ops < MaxStoreOps
    /\ ops' = ops + 1
    /\ thr' = [thr EXCEPT ![t] =
                 [IdleThread EXCEPT !.op = "store", !.pc = "store_wait", !.ip = ip,
                                    !.data = StoredData(ip)]]
    /\ UNCHANGED <<store, now, ticks, db_lock, finished, last>>
    /\ StoreFrame

\* a thread enters cleanup_old_entries()
BeginCleanup(t) ==
    /\ thr[t].pc = "idle"
    /\ ops < MaxStoreOps
    /\ ops' = ops + 1
    /\ thr' = [thr EXCEPT ![t] = [IdleThread EXCEPT !.op = "cleanup", !.pc = "cleanup_wait"]]
    /\ UNCHANGED <<store, now, ticks, db_lock, finished, last>>
    /\ StoreFrame

\* with self.db_lock: the thread gets the lock when it is free
DbAcquire(t) ==
    /\ thr[t].pc \in {"get_wait", "store_wait", "cleanup_wait"}
    /\ db_lock = 0
    /\ db_lock' = t
    /\ thr' = [thr EXCEPT ![t].pc = CASE @ = "get_wait" -> "get_locked"
                                      [] @ = "store_wait" -> "store_locked"
                                      [] @ = "cleanup_wait" -> "cleanup_locked"]
    /\ UNCHANGED <<store, now, ticks, finished, last, ops>>
    /\ StoreFrame

\* SELECT * FROM ip_data WHERE ip = ? (lines 229-230)
Select(t) ==
    /\ thr[t].pc = "get_locked"
    /\ thr' = [thr EXCEPT ![t].pc = "get_selected",
                          ![t].row = IF thr[t].ip \in DOMAIN store
                                     THEN store[thr[t].ip] ELSE None]
    /\ UNCHANGED <<store, now, ticks, db_lock, finished, last, ops>>
    /\ StoreFrame

\* if row: UPDATE ... SET query_count = query_count + 1 (lines 232-248);
\* otherwise the critical section ends without a statement
UpdateQueryCount(t) ==
    /\ thr[t].pc = "get_selected"
    /\ IF Truthy(thr[t].row)
       THEN /\ store' = StoreHit(store, thr[t].ip, now).store
            /\ last' = Remembered
            /\ thr' = [thr EXCEPT ![t].pc = "get_hit"]
       ELSE /\ thr' = [thr EXCEPT ![t].pc = "get_missed"]
            /\ UNCHANGED <<store, last>>
    /\ UNCHANGED <<now, ticks, db_lock, finished, ops>>
    /\ StoreFrame

\* INSERT OR REPLACE INTO ip_data (lines 304-331)
InsertOrReplace(t) ==
    /\ thr[t].pc = "store_locked"
    /\ store' = StoreIpData(store, thr[t].ip, thr[t].data, now)
    /\ last' = Remembered
    /\ thr' = [thr EXCEPT ![t].pc = "store_committed",
                          ![t].before = IF thr[t].ip \in DOMAIN store
                                        THEN store[thr[t].ip]["query_count"] ELSE 0]
    /\ UNCHANGED <<now, ticks, db_lock, finished, ops>>
    /\ StoreFrame

\* DELETE FROM ip_data WHERE last_updated < cutoff_date (lines 548-552)
DeleteOld(t) ==
    /\ thr[t].pc = "cleanup_locked"
    /\ store' = CleanupOldEntries(store, now, CleanupDays)
    /\ last' = Remembered
    /\ finished' = [ip \in IPs |-> IF ip \in DOMAIN store' THEN finished[ip] ELSE 0]
    /\ thr' = [thr EXCEPT ![t].pc = "cleanup_done"]
    /\ UNCHANGED <<now, ticks, db_lock, ops>>
    /\ StoreFrame

\* the end of a `with self.db_lock` block: a hit returns the row, a miss
\* goes on to the external sources, _store_ip_data and cleanup return
DbRelease(t) ==
    /\ thr[t].pc \in {"get_hit", "get_missed", "store_committed", "cleanup_done"}
    /\ db_lock = t
    /\ db_lock' = 0
    /\ thr' = [thr EXCEPT ![t].pc = IF @ = "get_missed" THEN "resolve" ELSE "idle"]
    /\ finished' = IF thr[t].pc \in {"get_hit", "store_committed"}
                   THEN [finished EXCEPT ![thr[t].ip] = @ + 1]
                   ELSE finished
    /\ UNCHANGED <<store, now, ticks, last, ops>>
    /\ StoreFrame

\* lines 250-292 of get_ip_info: the record is built from the external
\* sources, no lock held; _store_ip_data comes next (line 295)
ResolveExternal(t) ==
    /\ thr[t].pc = "resolve"
    /\ thr' = [thr EXCEPT ![t].pc = "store_wait",
                          ![t].data = LocalResolve(thr[t].ip, world, db_token # "")]
    /\ UNCHANGED <<store, now, ticks, db_lock, finished, last, ops>>
    /\ StoreFrame

\* the clock moves on by d days
StoreTick(d) ==
    /\ ticks < MaxTicks
    /\ ticks' = ticks + 1
    /\ now' = now + d
    /\ UNCHANGED <<store, dvars>>
    /\ StoreFrame

StoreNext ==
    \/ \E t \in Threads, ip \in IPs : BeginGet(t, ip)
    \/ \E t \in Threads, ip \in IPs : BeginStore(t, ip)
    \/ \E t \in Threads : BeginCleanup(t)
    \/ \E t \in Threads : DbAcquire(t)
    \/ \E t \in Threads : Select(t)
    \/ \E t \in Threads : UpdateQueryCount(t)
    \/ \E t \in Threads : InsertOrReplace(t)
    \/ \E t \in Threads : DeleteOld(t)
    \/ \E t \in Threads : DbRelease(t)
    \/ \E t \in Threads : ResolveExternal(t)
    \/ \E d \in {CleanupDays, CleanupDays + 1} : StoreTick(d)

StoreSpec == StoreInit /\ [][StoreNext]_vars

----------------------------------------------------------------------------
(* _save_cache step by step, and the interrupted process                   *)

\* The canonical cache file holds the entries of cache_file followed by
\* the end of the JSON document if file_complete; the temp file holds the
\* entries of saver.to_save for the IPs in temp_file.keys, followed by the
\* end of the document if temp_file.complete.  The process can be
\* interrupted (killed) at any step of _save_cache; a new process then
\* loads the canonical file.

\* number of _save_cache executions in one behaviour
MaxSaves == 2

\* _load_cache (lines 88-112) on a document that parses: every string
\* timestamp that fromisoformat accepts becomes a datetime; for one that it
\* rejects the loop goes on to the next entry (`continue`, line 104) and the
\* entry stays in cache_data, which becomes the cache (line 106)
LoadCache(doc) ==
    [ip \in DOMAIN doc |->
        IF "timestamp" \in DOMAIN doc[ip] /\ doc[ip]["timestamp"].kind = "str"
        THEN Put(doc[ip], "timestamp", FromIsoFormat(doc[ip]["timestamp"]))
        ELSE doc[ip]]

\* a rename that does not wait for the temp file to be written and closed
ReplaceWhileWriting(sv) == sv.pc \in {"writing", "closed"}

\* os.replace (line 131) is reached after the `with open` block has written
\* and closed the temp file
ReplaceReady(sv) == sv.pc = "closed"

SaveInit ==
    /\ store = None
    /\ cache = None
    /\ cache_file = None
    /\ token = ""
    /\ db_token = ""
    /\ stats = [offline_hits |-> 0, online_hits |-> 0, cache_hits |-> 0,
                local_db_hits |-> 0, errors |-> 0]
    /\ now = 0
    /\ world = WorldOf([ip \in IPs |-> NoData])
    /\ call = NoCall
    /\ prev = NoCall
    /\ pre = [store |-> None, cache |-> None, token |-> "", now |-> 0]
    /\ bulk = BulkIdle
    /\ ticks = 0
    /\ lookups = 0
    /\ NoDbThreads
    /\ NoSave
    /\ NoCallers
    /\ NoFunc

\* what _save_cache and the cache writes before it never touch
SaveFrame ==
    UNCHANGED <<store, token, db_token, stats, now, world, call, prev, pre,
                bulk, ticks, lookups, dvars, tvars, pvars>>

\* _save_cache is entered: lines 119-125 build cache_to_save from ch
SaveStarted(ch) ==
    /\ saves < MaxSaves
    /\ saves' = saves + 1
    /\ saver' = [pc |-> "serialized", to_save |-> Serialize(ch)]
    /\ old_file' = cache_file
    /\ UNCHANGED <<cache_file, temp_file, file_complete>>

\* step 7 of get_ip_info (lines 346-350): the record, stamped with the
\* isoformat string, is put in the cache and _save_cache is entered
SingleCacheWrite(ip) ==
    /\ saver.pc = "idle"
    /\ cache' = Put(cache, ip, Put(Fallback(ip), "timestamp", IsoFormat(Datetime(now))))
    /\ SaveStarted(cache')
    /\ SaveFrame

\* a cache write of bulk_lookup (lines 409-411, 437-438): the record is
\* stamped with the datetime; the save comes at the end of the batch
BulkCacheWrite(ip) ==
    /\ saver.pc = "idle"
    /\ ip \notin DOMAIN cache
    /\ cache' = Put(cache, ip, Put(OnlineFull(ip), "timestamp", Datetime(now)))
    /\ UNCHANGED <<cache_file, fvars>>
    /\ SaveFrame

\* the _save_cache at the end of bulk_lookup (line 482) and in close
SaveCache ==
    /\ saver.pc = "idle"
    /\ SaveStarted(cache)
    /\ UNCHANGED cache
    /\ SaveFrame

\* clear_cache(None): lines 531-533 and the save of line 546
ClearCache ==
    /\ saver.pc = "idle"
    /\ cache # None
    /\ cache' = None
    /\ SaveStarted(cache')
    /\ SaveFrame

\* open(temp_file, 'w') (line 127): the temp file is created or truncated
OpenTemp ==
    /\ saver.pc = "serialized"
    /\ saver' = [saver EXCEPT !.pc = "writing"]
    /\ temp_file' = [exists |-> TRUE, keys |-> {}, complete |-> FALSE]
    /\ UNCHANGED <<cache, cache_file, file_complete, old_file, saves>>
    /\ SaveFrame

\* json.dump (line 128) has written one more entry
WriteEntry(ip) ==
    /\ saver.pc = "writing"
    /\ ip \in DOMAIN saver.to_save \ temp_file.keys
    /\ temp_file' = [temp_file EXCEPT !.keys = @ \cup {ip}]
    /\ UNCHANGED <<cache, cache_file, saver, file_complete, old_file, saves>>
    /\ SaveFrame

\* json.dump has written the end of the document and the file is closed
CloseTemp ==
    /\ saver.pc = "writing"
    /\ temp_file.keys = DOMAIN saver.to_save
    /\ temp_file' = [temp_file EXCEPT !.complete = TRUE]
    /\ saver' = [saver EXCEPT !.pc = "closed"]
    /\ UNCHANGED <<cache, cache_file, file_complete, old_file, saves>>
    /\ SaveFrame

\* os.replace(temp_file, self.cache_file) (line 131): the canonical name
\* gets the temp file, whatever it holds, in one step
Replace ==
    /\ ReplaceReady(saver)
    /\ cache_file' = [ip \in temp_file.keys |-> saver.to_save[ip]]
    /\ file_complete' = temp_file.complete
    /\ temp_file' = NoTemp
    /\ saver' = [saver EXCEPT !.pc = "idle"]
    /\ UNCHANGED <<cache, old_file, saves>>
    /\ SaveFrame

\* the process is interrupted inside _save_cache, before the rename
Interrupt ==
    /\ saver.pc \in {"serialized", "writing", "closed"}
    /\ saver' = [saver EXCEPT !.pc = "dead"]
    /\ UNCHANGED <<cache, cache_file, temp_file, file_complete, old_file, saves>>
    /\ SaveFrame

\* a new process: __init__ loads the canonical file (a document that does
\* not parse gives an empty cache, lines 109-111)
Restart ==
    /\ saver.pc = "dead"
    /\ cache' = IF file_complete THEN LoadCache(cache_file) ELSE None
    /\ saver' = [saver EXCEPT !.pc = "idle"]
    /\ UNCHANGED <<cache_file, temp_file, file_complete, old_file, saves>>
    /\ SaveFrame

SaveNext ==
    \/ \E ip \in IPs : SingleCacheWrite(ip)
    \/ \E ip \in IPs : BulkCacheWrite(ip)
    \/ SaveCache
    \/ ClearCache
    \/ OpenTemp
    \/ \E ip \in IPs : WriteEntry(ip)
    \/ CloseTemp
    \/ Replace
    \/ Interrupt
    \/ Restart

SaveSpec == SaveInit /\ [][SaveNext]_vars

----------------------------------------------------------------------------
(* EnhancedIPinfoService and its store under concurrent callers            *)

\* Threads call into one service.  A thread runs get_ip_info ("single"),
\* one iteration of the first pass of bulk_lookup ("phaseA"), fetch_online
\* in the pool of bulk_lookup ("fetch"), the body of the as_completed loop
\* for one finished future ("collect"), process_ip of
\* bulk_import_from_logs ("import"), or clear_cache.  A thread's steps are
\* the taking of a lock, the statements of a `with` block together with its
\* end, an HTTP request being sent and its answer coming back, and each
\* read and each write of a stats counter (`self.stats[k] += 1` reads the
\* counter and writes it back, and the interpreter can switch threads in
\* between).

\* number of operations begun in one behaviour
MaxCalls == 2

\* stage is "local" up to the answer of local_db.get_ip_info and "resolved"
\* from the offline tier on; reg is the counter value read by `+= 1`
IdleCaller == [op |-> "none", pc |-> "idle", stage |-> "local", ip |-> <<>>,
               info |-> None, key |-> "", reg |-> 0]

\* the world of the threads: the API knows the public address; the country
\* table, when has_country, does too; there is no lite table
ThreadWorld(has_country) ==
    WorldOf([ip \in IPs |->
               IF ip = PublicA
               THEN [lite |-> None,
                     country |-> IF has_country THEN CountryHit ELSE None,
                     city |-> None, online |-> OnlineFull(ip)]
               ELSE NoData])

\* the store and the cache file an earlier process left, which had looked
\* PublicA up at time 0 with no table and no token: an all-Unknown row and
\* the fallback record
EarlierStore ==
    StoreIpData(None, PublicA, LocalResolve(PublicA, WorldOf([ip \in IPs |-> NoData]), FALSE), 0)

EarlierCacheFile ==
    Serialize(Put(None, PublicA, Put(Fallback(PublicA), "timestamp", IsoFormat(Datetime(0)))))

\* a new process, at once or CacheDays after the earlier one: the cache is
\* what _load_cache makes of the file
ThreadInit ==
    /\ \E earlier \in BOOLEAN :
          /\ store = IF earlier THEN EarlierStore ELSE None
          /\ cache_file = IF earlier THEN EarlierCacheFile ELSE None
          /\ cache = LoadCache(cache_file)
          /\ now \in IF earlier THEN {0, CacheDays} ELSE {0}
    /\ token = "secret"
    /\ db_token \in {"", "secret"}
    /\ stats = [offline_hits |-> 0, online_hits |-> 0, cache_hits |-> 0,
                local_db_hits |-> 0, errors |-> 0]
    /\ world \in {ThreadWorld(has_country) : has_country \in BOOLEAN}
    /\ call = NoCall
    /\ prev = NoCall
    /\ pre = [store |-> None, cache |-> None, token |-> "", now |-> 0]
    /\ bulk = BulkIdle
    /\ ticks = 0
    /\ lookups = 0
    /\ db_lock = 0
    /\ thr = [t \in {} |-> 0]
    /\ finished = None
    /\ last = None
    /\ ops = 0
    /\ NoSave
    /\ svc = [t \in Threads |-> IdleCaller]
    /\ cache_lock = 0
    /\ successes = 0
    /\ mutated = NoMutation
    /\ done = {}
    /\ calls = 0
    /\ NoFunc

\* what the threads never touch
ThreadFrame ==
    UNCHANGED <<token, db_token, world, call, prev, pre, bulk, lookups,
                thr, finished, last, ops, fvars, pvars>>

\* the `with self.db_lock` block of get_ip_info that kept the lock when the
\* SELECT found no row
LockKeptAfterMiss(t) == t

\* the owner of db_lock when the `with self.db_lock` block of get_ip_info
\* (lines 227-248) ends without a row: the block is left before line 250
LockAfterMiss(t) == 0

\* a _store_ip_data that kept the lock when it returned
LockKeptAfterCommit(t) == t

\* the owner of db_lock when the `with self.db_lock` block of
\* _store_ip_data (lines 301-332) ends
LockAfterCommit(t) == 0

\* the cache test of lines 299-303 and 387-391 for ip at time t
CacheVerdict(ch, ip, t) ==
    IF ip \notin DOMAIN ch THEN "absent"
    ELSE IF "timestamp" \in DOMAIN ch[ip] /\ ch[ip]["timestamp"].kind = "str"
    THEN "raises"                                  \* datetime - str: TypeError
    ELSE IF "timestamp" \in DOMAIN ch[ip] /\ t - ch[ip]["timestamp"].t < CacheDays
    THEN "fresh"
    ELSE "expired"

\* the thread goes on to `self.stats[k] += 1`
ToBump(c, k) == [c EXCEPT !.pc = "stat_read", !.key = k]

\* steps 5 and 6 of get_ip_info (lines 323-344): a record that is not the
\* fallback goes to _store_ip_data, the fallback straight to the cache
ToStoreAndCache(c, ip_info) ==
    [c EXCEPT !.info = ip_info, !.stage = "resolved",
              !.pc = IF Get(ip_info, "source", "") # "fallback"
                     THEN "db_wait" ELSE "cache_wait"]

\* steps 3 and 4 of get_ip_info (lines 310-315), off being the offline
\* record: the online request is sent, or the record is final
SingleOffline(c, off, tok) ==
    IF NeedOnline(off) /\ tok
    THEN [c EXCEPT !.pc = "request", !.stage = "resolved", !.info = off]
    ELSE ToStoreAndCache(c, OrFallback(c.ip, off))

\* step 3 of the first pass (lines 398-414), off being the offline record:
\* a hit is counted, stored and cached, anything else is left to the pool
PhaseAOfflineStep(c, off, t) ==
    IF Truthy(off)
       /\ (\/ Get(off, "source", "") = "offline_private"
           \/ Get(off, "country", "Unknown") # "Unknown")
    THEN [ToBump(c, "offline_hits") EXCEPT !.stage = "resolved",
                                           !.info = Put(off, "timestamp", Datetime(t))]
    ELSE [c EXCEPT !.pc = "idle"]

\* a thread enters get_ip_info, an iteration of the first pass or
\* process_ip: all begin with local_db.get_ip_info(ip), where a private
\* address goes straight to _store_ip_data (lines 201-223)
BeginLookup(t, op, ip) ==
    /\ svc[t].pc = "idle"
    /\ calls < MaxCalls
    /\ calls' = calls + 1
    /\ svc' = [svc EXCEPT ![t] =
                 IF IsPrivateIp(ip)
                 THEN [IdleCaller EXCEPT !.op = op, !.ip = ip, !.pc = "db_wait",
                                         !.info = PrivateInfo(ip)]
                 ELSE [IdleCaller EXCEPT !.op = op, !.ip = ip, !.pc = "select_wait"]]
    /\ UNCHANGED <<store, cache, cache_file, stats, now, ticks, db_lock,
                   cache_lock, successes, mutated, done>>
    /\ ThreadFrame

\* executor.submit(fetch_online, ip) (line 431): a pool thread starts with
\* the request of _get_online_info; the pool exists only with a token
BeginFetch(t, ip) ==
    /\ svc[t].pc = "idle"
    /\ calls < MaxCalls
    /\ token # ""
    /\ calls' = calls + 1
    /\ svc' = [svc EXCEPT ![t] = [IdleCaller EXCEPT !.op = "fetch", !.ip = ip,
                                                    !.pc = "request",
                                                    !.stage = "resolved"]]
    /\ UNCHANGED <<store, cache, cache_file, stats, now, ticks, db_lock,
                   cache_lock, successes, mutated, done>>
    /\ ThreadFrame

\* the as_completed loop takes a finished future (lines 433-458): its info
\* goes to the cache; a failed lookup touches only the caller's results
BeginCollect(t, f) ==
    /\ svc[t].pc = "idle"
    /\ f \in done
    /\ done' = done \ {f}
    /\ svc' = [svc EXCEPT ![t] =
                 IF Truthy(f.info)
                 THEN [IdleCaller EXCEPT !.op = "collect", !.ip = f.ip,
                                         !.pc = "cache_wait", !.stage = "resolved",
                                         !.info = f.info]
                 ELSE IdleCaller]
    /\ UNCHANGED <<store, cache, cache_file, stats, now, ticks, db_lock,
                   cache_lock, successes, mutated, calls>>
    /\ ThreadFrame

\* clear_cache(None) (lines 531-533, 546): the cache is emptied and saved
ClearCacheCall(t) ==
    /\ svc[t].pc = "idle"
    /\ calls < MaxCalls
    /\ calls' = calls + 1
    /\ cache' = None
    /\ cache_file' = Serialize(cache')
    /\ mutated' = [kind |-> "clear", by |-> t, lock |-> cache_lock]
    /\ UNCHANGED <<store, stats, now, ticks, db_lock, svc, cache_lock,
                   successes, done>>
    /\ ThreadFrame

\* with self.db_lock: the thread gets the lock when it is free
TakeDbLock(t) ==
    /\ svc[t].pc \in {"select_wait", "db_wait"}
    /\ db_lock = 0
    /\ db_lock' = t
    /\ svc' = [svc EXCEPT ![t].pc = IF @ = "select_wait" THEN "select_locked"
                                    ELSE "db_locked"]
    /\ UNCHANGED <<store, cache, cache_file, stats, now, ticks, cache_lock,
                   successes, mutated, done, calls>>
    /\ ThreadFrame

\* lines 227-248 of LocalIPDatabase.get_ip_info: SELECT; a row is counted
\* and returned; without a row the block ends and the external sources come
\* next, the API first if the store has a token
SelectRow(t) ==
    /\ svc[t].pc = "select_locked"
    /\ IF svc[t].ip \in DOMAIN store
       THEN /\ store' = StoreHit(store, svc[t].ip, now).store
            /\ db_lock' = 0
            /\ svc' = [svc EXCEPT ![t].pc = "local_done",
                                  ![t].info = StoreHit(store, svc[t].ip, now).ret]
       ELSE /\ db_lock' = LockAfterMiss(t)
            /\ svc' = [svc EXCEPT ![t] =
                         IF db_token # ""
                         THEN [@ EXCEPT !.pc = "local_request"]
                         ELSE [@ EXCEPT !.pc = "db_wait",
                                        !.info = LocalResolve(svc[t].ip, world, FALSE)]]
            /\ UNCHANGED store
    /\ UNCHANGED <<cache, cache_file, stats, now, ticks, cache_lock,
                   successes, mutated, done, calls>>
    /\ ThreadFrame

\* the answer to the request of _get_ipinfo_data (line 160) arrives, or the
\* request fails; lines 250-292 build the record, _store_ip_data is next
LocalRespond(t, ok) ==
    /\ svc[t].pc = "local_request"
    /\ svc' = [svc EXCEPT ![t].pc = "db_wait",
                          ![t].info = LocalResolve(svc[t].ip, world, ok)]
    /\ UNCHANGED <<store, cache, cache_file, stats, now, ticks, db_lock,
                   cache_lock, successes, mutated, done, calls>>
    /\ ThreadFrame

\* _store_ip_data under the lock (lines 301-332) and the end of its block.
\* In the local stage the caller is LocalIPDatabase.get_ip_info, which
\* returns; fetch_online returns its future; get_ip_info and the first
\* pass go on to the cache.
CommitRow(t) ==
    /\ svc[t].pc = "db_locked"
    /\ store' = StoreIpData(store, svc[t].ip, svc[t].info, now)
    /\ db_lock' = LockAfterCommit(t)
    /\ svc' = [svc EXCEPT ![t] =
                 IF @.stage = "local" THEN [@ EXCEPT !.pc = "local_done"]
                 ELSE IF @.op = "fetch" THEN IdleCaller
                 ELSE [@ EXCEPT !.pc = "cache_wait"]]
    /\ done' = IF svc[t].stage = "resolved" /\ svc[t].op = "fetch"
               THEN done \cup {[ip |-> svc[t].ip, info |-> svc[t].info]}
               ELSE done
    /\ UNCHANGED <<cache, cache_file, stats, now, ticks, cache_lock,
                   successes, mutated, calls>>
    /\ ThreadFrame

\* local_db.get_ip_info has returned local_info: process_ip ends; lines
\* 294-296 and 380-383 count a record with a country and end; otherwise
\* get_ip_info reads the cache and the first pass asks for the cache lock
LocalDone(t) ==
    /\ svc[t].pc = "local_done"
    /\ svc' = [svc EXCEPT ![t] =
                 IF @.op = "import" THEN IdleCaller
                 ELSE IF Truthy(@.info) /\ Get(@.info, "country", "") # "Unknown"
                 THEN ToBump(@, "local_db_hits")
                 ELSE IF @.op = "single" THEN [@ EXCEPT !.pc = "cache_check"]
                 ELSE [@ EXCEPT !.pc = "cache_wait"]]
    /\ UNCHANGED <<store, cache, cache_file, stats, now, ticks, db_lock,
                   cache_lock, successes, mutated, done, calls>>
    /\ ThreadFrame

\* step 2 of get_ip_info (lines 299-308), no lock taken: a fresh entry is
\* counted and returned, an expired one deleted; then the offline tier
CacheCheck(t) ==
    /\ svc[t].pc = "cache_check"
    /\ LET v == CacheVerdict(cache, svc[t].ip, now)
       IN /\ cache' = IF v = "expired" THEN Del(cache, svc[t].ip) ELSE cache
          /\ mutated' = IF v = "expired"
                        THEN [kind |-> "evict", by |-> t, lock |-> cache_lock]
                        ELSE mutated
          /\ svc' = [svc EXCEPT ![t] =
                       IF v = "raises" THEN IdleCaller
                       ELSE IF v = "fresh" THEN ToBump(@, "cache_hits")
                       ELSE SingleOffline(@, GetOfflineInfo(world, @.ip).ret,
                                          token # "")]
    /\ UNCHANGED <<store, cache_file, stats, now, ticks, db_lock, cache_lock,
                   successes, done, calls>>
    /\ ThreadFrame

\* the answer to the request of _get_online_info (line 265) arrives, or the
\* request fails.  get_ip_info merges it (lines 316-340); fetch_online
\* stamps an answer and goes on to count it (lines 422-424), and returns
\* None for a failure (line 428)
Respond(t, ok) ==
    /\ svc[t].pc = "request"
    /\ IF svc[t].op = "fetch"
       THEN IF Truthy(GetOnlineInfo(world, svc[t].ip, ok).ret)
            THEN /\ svc' = [svc EXCEPT ![t] =
                              [ToBump(@, "online_hits") EXCEPT !.info =
                                  Put(GetOnlineInfo(world, svc[t].ip, ok).ret,
                                      "timestamp", Datetime(now))]]
                 /\ successes' = successes + 1
                 /\ UNCHANGED done
            ELSE /\ svc' = [svc EXCEPT ![t] = IdleCaller]
                 /\ done' = done \cup {[ip |-> svc[t].ip, info |-> None]}
                 /\ UNCHANGED successes
       ELSE /\ svc' = [svc EXCEPT ![t] =
                         ToStoreAndCache(@, OrFallback(@.ip,
                             Merge(@.info, GetOnlineInfo(world, @.ip, ok).ret)))]
            /\ UNCHANGED <<successes, done>>
    /\ UNCHANGED <<store, cache, cache_file, stats, now, ticks, db_lock,
                   cache_lock, mutated, calls>>
    /\ ThreadFrame

\* self.stats[k] += 1, first half: the counter is read
StatRead(t) ==
    /\ svc[t].pc = "stat_read"
    /\ svc' = [svc EXCEPT ![t].pc = "stat_write", ![t].reg = stats[svc[t].key]]
    /\ UNCHANGED <<store, cache, cache_file, stats, now, ticks, db_lock,
                   cache_lock, successes, mutated, done, calls>>
    /\ ThreadFrame

\* self.stats[k] += 1, second half: the value read plus one is written.
\* fetch_online and the offline hit of the first pass go on to
\* _store_ip_data (lines 426, 407); the hits of the store and of the cache
\* return
StatWrite(t) ==
    /\ svc[t].pc = "stat_write"
    /\ stats' = [stats EXCEPT ![svc[t].key] = svc[t].reg + 1]
    /\ svc' = [svc EXCEPT ![t] =
                 IF @.stage = "resolved" THEN [@ EXCEPT !.pc = "db_wait"]
                 ELSE IdleCaller]
    /\ UNCHANGED <<store, cache, cache_file, now, ticks, db_lock, cache_lock,
                   successes, mutated, done, calls>>
    /\ ThreadFrame

\* with self._cache_lock: the thread gets the lock when it is free
TakeCacheLock(t) ==
    /\ svc[t].pc = "cache_wait"
    /\ cache_lock = 0
    /\ cache_lock' = t
    /\ svc' = [svc EXCEPT ![t].pc = "cache_locked"]
    /\ UNCHANGED <<store, cache, cache_file, stats, now, ticks, db_lock,
                   successes, mutated, done, calls>>
    /\ ThreadFrame

\* the cache test of the first pass (lines 386-396), inside the block, and
\* the offline tier after it
PhaseACheck(t, v) ==
    /\ cache' = IF v = "expired" THEN Del(cache, svc[t].ip) ELSE cache
    /\ mutated' = IF v = "expired"
                  THEN [kind |-> "evict", by |-> t, lock |-> cache_lock]
                  ELSE mutated
    /\ svc' = [svc EXCEPT ![t] =
                 IF v = "raises" THEN IdleCaller
                 ELSE IF v = "fresh" THEN ToBump(@, "cache_hits")
                 ELSE PhaseAOfflineStep(@, GetOfflineInfo(world, @.ip).ret, now)]
    /\ UNCHANGED cache_file

\* self.cache[ip] = info inside the block; get_ip_info stamps the record
\* with the isoformat string and saves the cache (lines 347-350), the
\* first pass and the as_completed loop only write (lines 410-411, 437-438)
CacheWrite(t) ==
    /\ cache' = Put(cache, svc[t].ip,
                    IF svc[t].op = "single"
                    THEN Put(svc[t].info, "timestamp", IsoFormat(Datetime(now)))
                    ELSE svc[t].info)
    /\ cache_file' = IF svc[t].op = "single" THEN Serialize(cache') ELSE cache_file
    /\ mutated' = [kind |-> "insert", by |-> t, lock |-> cache_lock]
    /\ svc' = [svc EXCEPT ![t] = IdleCaller]

\* a `with self._cache_lock` block and its end
CacheLocked(t) ==
    /\ svc[t].pc = "cache_locked"
    /\ cache_lock' = 0
    /\ IF svc[t].stage = "local"
       THEN PhaseACheck(t, CacheVerdict(cache, svc[t].ip, now))
       ELSE CacheWrite(t)
    /\ UNCHANGED <<store, stats, now, ticks, db_lock, successes, done, calls>>
    /\ ThreadFrame

ThreadNext ==
    \/ \E t \in Threads, op \in {"single", "phaseA", "import"}, ip \in IPs :
          BeginLookup(t, op, ip)
    \/ \E t \in Threads, ip \in PublicIPs : BeginFetch(t, ip)
    \/ \E t \in Threads, f \in done : BeginCollect(t, f)
    \/ \E t \in Threads : ClearCacheCall(t)
    \/ \E t \in Threads : TakeDbLock(t)
    \/ \E t \in Threads : SelectRow(t)
    \/ \E t \in Threads, ok \in BOOLEAN : LocalRespond(t, ok)
    \/ \E t \in Threads : CommitRow(t)
    \/ \E t \in Threads : LocalDone(t)
    \/ \E t \in Threads : CacheCheck(t)
    \/ \E t \in Threads, ok \in BOOLEAN : Respond(t, ok)
    \/ \E t \in Threads : StatRead(t)
    \/ \E t \in Threads : StatWrite(t)
    \/ \E t \in Threads : TakeCacheLock(t)
    \/ \E t \in Threads : CacheLocked(t)

ThreadSpec == ThreadInit /\ [][ThreadNext]_vars

\* the steps of thread t inside a call it has begun
ThreadStep(t) ==
    \/ TakeDbLock(t)
    \/ SelectRow(t)
    \/ \E ok \in BOOLEAN : LocalRespond(t, ok)
    \/ CommitRow(t)
    \/ LocalDone(t)
    \/ CacheCheck(t)
    \/ \E ok \in BOOLEAN : Respond(t, ok)
    \/ StatRead(t)
    \/ StatWrite(t)
    \/ TakeCacheLock(t)
    \/ CacheLocked(t)

\* The scheduler runs every thread that can run, and every request ends
\* (requests.get has a timeout, lines 265 and 160 of the two files): a
\* thread inside a call takes its next step if that step stays possible.
ThreadFairSpec ==
    ThreadInit /\ [][ThreadNext]_vars /\ \A t \in Threads : WF_vars(ThreadStep(t))

----------------------------------------------------------------------------
(* The pure functions, applied to every input of a bounded set             *)

\* fn is the function applied, arg its input and out what it returned; a
\* behaviour applies one function to one input

\* most dot-separated parts of an IP string
MaxParts == 5

\* parts of an IP string: the numbers the classifier tests, one more, and a
\* part that is not a number (the empty string included)
Parts == {10, 172, 16, 192, 168, 127, 8, NonNumeric}

RECURSIVE IpStrings(_)
IpStrings(n) ==
    IF n = 0 THEN {}
    ELSE {<<p>> : p \in Parts}
         \cup {Append(s, p) : s \in IpStrings(n - 1), p \in Parts}

\* LocalIPDatabase._is_private_ip (lines 111-128): list(map(int, ...))
\* raises ValueError for any part that is not a number, parts[1] raises
\* IndexError where it is read from a one-part list
DbIsPrivateIp(ip) ==
    IF \E i \in 1..Len(ip) : ip[i] = NonNumeric THEN FALSE
    ELSE IF ip[1] = 10 THEN TRUE
    ELSE IF ip[1] = 172 /\ Len(ip) < 2 THEN FALSE
    ELSE IF ip[1] = 172 /\ 16 <= ip[2] /\ ip[2] <= 31 THEN TRUE
    ELSE IF ip[1] = 192 /\ Len(ip) < 2 THEN FALSE
    ELSE IF ip[1] = 192 /\ ip[2] = 168 THEN TRUE
    ELSE ip[1] = 127

\* a string that datetime.fromisoformat rejects with ValueError
BadTimestamp == [kind |-> "badstr", t |-> 0]

\* the entries a cache file can hold for ip: no timestamp, the isoformat
\* string, a string that does not parse
FileEntries(ip) ==
    {Fallback(ip),
     Put(Fallback(ip), "timestamp", IsoFormat(Datetime(0))),
     Put(Fallback(ip), "timestamp", BadTimestamp)}

\* the cache files: JSON documents of any such entries
CacheDocs ==
    UNION {{d \in [s -> UNION {FileEntries(ip) : ip \in s}] :
               \A ip \in s : d[ip] \in FileEntries(ip)} : s \in SUBSET IPs}

FuncInit ==
    /\ store = None
    /\ cache = None
    /\ cache_file = None
    /\ token = ""
    /\ db_token = ""
    /\ stats = [offline_hits |-> 0, online_hits |-> 0, cache_hits |-> 0,
                local_db_hits |-> 0, errors |-> 0]
    /\ now = 0
    /\ world = WorldOf([ip \in IPs |-> NoData])
    /\ call = NoCall
    /\ prev = NoCall
    /\ pre = [store |-> None, cache |-> None, token |-> "", now |-> 0]
    /\ bulk = BulkIdle
    /\ ticks = 0
    /\ lookups = 0
    /\ NoDbThreads
    /\ NoSave
    /\ NoCallers
    /\ NoFunc

\* _is_private_ip of both classes on one string
ClassifyIp ==
    /\ NoFunc
    /\ \E ip \in IpStrings(MaxParts) :
          /\ fn' = "_is_private_ip"
          /\ arg' = ip
          /\ out' = [enhanced |-> IsPrivateIp(ip), db |-> DbIsPrivateIp(ip)]
    /\ UNCHANGED <<svars, dvars, fvars, tvars>>

\* _get_offline_info(ip) with the readers and tables of a world
OfflineLookup ==
    /\ NoFunc
    /\ \E w \in Worlds, ip \in PublicIPs :
          /\ fn' = "_get_offline_info"
          /\ arg' = [world |-> w, ip |-> ip]
          /\ out' = GetOfflineInfo(w, ip).ret
    /\ UNCHANGED <<svars, dvars, fvars, tvars>>

\* lines 250-265 of LocalIPDatabase.get_ip_info on a row of the lite table
\* and a JSON answer of the API
MergeLookup ==
    /\ NoFunc
    /\ \E ip \in PublicIPs, lite \in {LiteFull, LiteAsnOnly} :
          \E online \in {OnlineFull(ip), OnlineBogon(ip)} :
             /\ fn' = "merge"
             /\ arg' = [ip |-> ip, lite |-> lite, online |-> online]
             /\ out' = MergeSources([ip |-> ip, is_private |-> 0],
                                    MmdbFields(lite), IpinfoFields(online))
    /\ UNCHANGED <<svars, dvars, fvars, tvars>>

\* _load_cache on a cache file that parses as JSON
LoadCacheCall ==
    /\ NoFunc
    /\ \E doc \in CacheDocs :
          /\ fn' = "_load_cache"
          /\ arg' = doc
          /\ out' = LoadCache(doc)
    /\ UNCHANGED <<svars, dvars, fvars, tvars>>

FuncNext ==
    \/ ClassifyIp
    \/ OfflineLookup
    \/ MergeLookup
    \/ LoadCacheCall

FuncSpec == FuncInit /\ [][FuncNext]_vars

----------------------------------------------------------------------------
(* Concurrent executions of _save_cache                                    *)

\* Threads of one process are inside _save_cache at the same time: the one
\* called by get_ip_info holds _cache_lock (lines 348-350), the ones called
\* by bulk_lookup (482), clear_cache (546) and close (553) do not.  All use
\* the temp name f"{cache_file}.tmp" (line 117).  temp_file is the file at
\* that name, cache_file and file_complete the file at the canonical name.
\* svc[t].fd says which file the descriptor of t writes to: an open
\* descriptor follows its file through a rename ("canonical") and keeps it
\* when another rename takes the name away ("unlinked").  A document is
\* taken to be complete as soon as one writer has written it to its end
\* and closed, whatever another writer of the same file is doing.

SaveOps == {"single", "bulk", "clear", "close"}

IdleSaver == [op |-> "none", pc |-> "idle", fd |-> "none", to_save |-> None]

\* the entry get_ip_info puts in the cache before it saves (lines 346-349)
SavedEntry(ip) == Put(Fallback(ip), "timestamp", IsoFormat(Datetime(now)))

SaversInit ==
    /\ store = None
    /\ cache \in {None, PublicA :> Put(OnlineFull(PublicA), "timestamp", Datetime(0))}
    /\ cache_file = Serialize(cache)
    /\ token = ""
    /\ db_token = ""
    /\ stats = [offline_hits |-> 0, online_hits |-> 0, cache_hits |-> 0,
                local_db_hits |-> 0, errors |-> 0]
    /\ now = 0
    /\ world = WorldOf([ip \in IPs |-> NoData])
    /\ call = NoCall
    /\ prev = NoCall
    /\ pre = [store |-> None, cache |-> None, token |-> "", now |-> 0]
    /\ bulk = BulkIdle
    /\ ticks = 0
    /\ lookups = 0
    /\ NoDbThreads
    /\ temp_file = [exists |-> FALSE, complete |-> FALSE, doc |-> None]
    /\ saver = [pc |-> "idle", to_save |-> None]
    /\ file_complete = TRUE
    /\ old_file = None
    /\ saves = 0
    /\ svc = [t \in Threads |-> IdleSaver]
    /\ cache_lock = 0
    /\ successes = 0
    /\ mutated = NoMutation
    /\ done = {}
    /\ calls = 0
    /\ NoFunc

\* what the savers never touch
SaversFrame ==
    UNCHANGED <<store, token, db_token, now, world, call, prev, pre, bulk,
                ticks, lookups, dvars, saver, old_file, saves, successes,
                mutated, done, pvars>>

\* the cache a caller leaves before it saves: get_ip_info adds its entry,
\* clear_cache(None) empties the cache (line 533), bulk_lookup has written
\* its entries before and close writes none
CacheBeforeSave(ch, op, ip) ==
    CASE op = "single" -> Put(ch, ip, SavedEntry(ip))
      [] op = "clear" -> None
      [] OTHER -> ch

\* _save_cache is entered (lines 119-125 build cache_to_save); get_ip_info
\* enters it inside `with self._cache_lock`
SaveEnter(t, op, ip) ==
    /\ svc[t].pc = "idle"
    /\ calls < MaxCalls
    /\ op = "single" => cache_lock = 0
    /\ calls' = calls + 1
    /\ cache_lock' = IF op = "single" THEN t ELSE cache_lock
    /\ cache' = CacheBeforeSave(cache, op, ip)
    /\ svc' = [svc EXCEPT ![t] = [op |-> op, pc |-> "serialized", fd |-> "none",
                                  to_save |-> Serialize(cache')]]
    /\ UNCHANGED <<cache_file, temp_file, file_complete, stats>>
    /\ SaversFrame

\* open(temp_file, 'w') (line 127): the file at the temp name is created,
\* or truncated if it is there
SaveOpen(t) ==
    /\ svc[t].pc = "serialized"
    /\ temp_file' = [exists |-> TRUE, complete |-> FALSE, doc |-> None]
    /\ svc' = [svc EXCEPT ![t].pc = "writing", ![t].fd = "temp"]
    /\ UNCHANGED <<cache, cache_file, file_complete, stats, cache_lock, calls>>
    /\ SaversFrame

\* json.dump (line 128) has written the document through the descriptor
\* and the `with` block has closed it
SaveDump(t) ==
    /\ svc[t].pc = "writing"
    /\ temp_file' = IF svc[t].fd = "temp"
                    THEN [exists |-> TRUE, complete |-> TRUE, doc |-> svc[t].to_save]
                    ELSE temp_file
    /\ cache_file' = IF svc[t].fd = "canonical" THEN svc[t].to_save ELSE cache_file
    /\ file_complete' = IF svc[t].fd = "canonical" THEN TRUE ELSE file_complete
    /\ svc' = [svc EXCEPT ![t].pc = "closed", ![t].fd = "none"]
    /\ UNCHANGED <<cache, stats, cache_lock, calls>>
    /\ SaversFrame

\* where an open descriptor writes after os.replace(temp, canonical)
AfterReplace(fd) ==
    CASE fd = "temp" -> "canonical"
      [] fd = "canonical" -> "unlinked"
      [] OTHER -> fd

\* os.replace (line 131) and the return to the caller, which releases
\* _cache_lock if it holds it.  With no file at the temp name os.replace
\* raises FileNotFoundError, an OSError: lines 133-141 find nothing to
\* remove and count the error
SaveReplace(t) ==
    /\ svc[t].pc = "closed"
    /\ IF temp_file.exists
       THEN /\ cache_file' = temp_file.doc
            /\ file_complete' = temp_file.complete
            /\ temp_file' = [exists |-> FALSE, complete |-> FALSE, doc |-> None]
            /\ svc' = [u \in Threads |->
                         IF u = t THEN IdleSaver
                         ELSE [svc[u] EXCEPT !.fd = AfterReplace(@)]]
            /\ UNCHANGED stats
       ELSE /\ stats' = Bump(stats, "errors")
            /\ svc' = [svc EXCEPT ![t] = IdleSaver]
            /\ UNCHANGED <<cache_file, file_complete, temp_file>>
    /\ cache_lock' = IF cache_lock = t THEN 0 ELSE cache_lock
    /\ UNCHANGED <<cache, calls>>
    /\ SaversFrame

SaversNext ==
    \/ \E t \in Threads, op \in SaveOps : SaveEnter(t, op, PublicA)
    \/ \E t \in Threads : SaveOpen(t)
    \/ \E t \in Threads : SaveDump(t)
    \/ \E t \in Threads : SaveReplace(t)

SaversSpec == SaversInit /\ [][SaversNext]_vars

----------------------------------------------------------------------------
(* Vocabulary of the properties                                            *)

\* the private ranges 10/8, 172.16/12, 192.168/16 and 127/8
InPrivateRange(ip) ==
    /\ Len(ip) = 4
    /\ \/ ip[1] = 10
       \/ ip[1] = 172 /\ ip[2] \in 16..31
       \/ ip[1] = 192 /\ ip[2] = 168
       \/ ip[1] = 127

ArgSet(l) == {l[i] : i \in 1..Len(l)}

SingleReturned == call.op = "single" /\ call.status = "returned"
BulkReturned == call.op = "bulk" /\ call.status = "returned"

\* every string field is there and is not empty
Populated(rec) == \A f \in StrFields : f \in DOMAIN rec /\ rec[f] # ""

\* every string field other than source is at its sentinel
AllUnknown(rec) ==
    /\ \A f \in StrFields \ {"source", "country_code", "continent_code"} :
          f \in DOMAIN rec /\ rec[f] = "Unknown"
    /\ \A f \in {"country_code", "continent_code"} : f \in DOMAIN rec /\ rec[f] = "XX"

\* a store row that holds no data: every data column at its default
NoDataRow(row) ==
    /\ \A f \in {"country", "country_name", "continent", "region", "city",
                 "asn", "as_name", "org", "timezone"} : row[f] = "Unknown"
    /\ row["as_domain"] \in {"Unknown", "unknown"}
    /\ row["country_code"] = "XX" /\ row["continent_code"] = "XX"

\* the string fields that both records carry have the same values
FieldsAgree(a, b) ==
    \A f \in StrFields : f \in DOMAIN a /\ f \in DOMAIN b => a[f] = b[f]

\* both records carry the same string fields with the same values
SameFields(a, b) ==
    \A f \in StrFields : /\ f \in DOMAIN a <=> f \in DOMAIN b
                         /\ f \in DOMAIN a => a[f] = b[f]

\* r, the outcome of a get_ip_info call, is a return of the fields of rec
ReturnsSame(rec, r) == r.status = "returned" /\ SameFields(rec, r.ret)

\* the state and the surroundings in which the last call started
PreState == [store |-> pre.store, cache |-> pre.cache, stats |-> stats]
PreEnv == [now |-> pre.now, world |-> world, token |-> pre.token # "",
           db_token |-> db_token # ""]

\* the store, asked at the start of the last call, would not answer for ip
Answers(local_info) ==
    Truthy(local_info) /\ Get(local_info, "country", "") # "Unknown"

StoreSilent(ip) ==
    ~Answers(LocalGetIpInfo(pre.store, ip, pre.now, world, db_token # "").ret)

NoOfflineDatabases ==
    ~world.lite_reader /\ ~world.country_reader /\ ~world.city_reader

----------------------------------------------------------------------------
(* Properties                                                              *)

\* C1: every get_ip_info and bulk_lookup call returns to its caller; no
\* exception escapes the call, whatever the tiers produced.
C1_NoExceptionEscapes == call.status # "raised"

\* C2: every record returned by get_ip_info and every value of the map
\* returned by bulk_lookup carries every IPRecord string field with a
\* non-empty value, whichever tier produced it.
C2_AllFieldsPopulated ==
    /\ SingleReturned => Populated(call.ret)
    /\ BulkReturned => \A ip \in DOMAIN call.results : Populated(call.results[ip])

\* C3: a lookup of an IP that the store does not answer and whose cache
\* entry was written at time T returns that entry as a cache hit while
\* now - T < 7 days, and goes on to the lower tiers once now - T >= 7 days
\* (single-IP path, and the first IP of a bulk list).
C3_CacheTtl ==
    /\ call.op = "single" /\ call.arg[1] \in DOMAIN pre.cache /\ StoreSilent(call.arg[1])
       => LET ip == call.arg[1]
              T == pre.cache[ip]["timestamp"].t
          IN /\ call.status = "returned"
             /\ IF pre.now - T < CacheDays
                THEN call.tier = "cache" /\ call.ret = pre.cache[ip]
                ELSE call.tier = "resolved"
    /\ call.op = "bulk" /\ call.arg # <<>> /\ Head(call.arg) \in DOMAIN pre.cache
         /\ StoreSilent(Head(call.arg))
       => LET ip == Head(call.arg)
              T == pre.cache[ip]["timestamp"].t
          IN /\ call.status # "raised"
             /\ call.status = "returned" /\ Len(call.arg) = 1
                => IF pre.now - T < CacheDays
                   THEN call.results[ip] = pre.cache[ip]
                   ELSE call.results[ip] # pre.cache[ip]

\* C4: resolving an IP of a private range, by get_ip_info or by
\* bulk_lookup, returns a record with source = offline_private and
\* country = "Private".
C4_PrivateRecord ==
    /\ SingleReturned /\ InPrivateRange(call.arg[1])
       => /\ Get(call.ret, "source", "") = "offline_private"
          /\ Get(call.ret, "country", "") = "Private"
    /\ BulkReturned
       => \A ip \in DOMAIN call.results :
             InPrivateRange(ip)
             => /\ Get(call.results[ip], "source", "") = "offline_private"
                /\ Get(call.results[ip], "country", "") = "Private"

\* C5: resolving a private-range IP, in the single-IP path and in the bulk
\* path, reads no offline database and issues no online request.
C5_PrivateBypass == \A r \in call.reads : ~InPrivateRange(r[2])

\* C5 witness: a batch with a private and a public IP has returned, with
\* a token set and external sources consulted for the public one.
C5_Witness ==
    /\ BulkReturned
    /\ call.arg = <<PrivateIP, PublicA>>
    /\ token # ""
    /\ <<"online", PublicA>> \in call.reads
    /\ <<"lite", PublicA>> \in call.reads

\* C6: for every input list, bulk_lookup returns a map whose key set is
\* the set of distinct input IPs.
C6_KeySet ==
    call.op = "bulk"
    => /\ call.status # "raised"
       /\ call.status = "returned" => DOMAIN call.results = ArgSet(call.arg)

\* C7 as stated: with no token, no offline databases and an empty store,
\* bulk_lookup returns one record per distinct input IP and every record
\* has every string field at Unknown (codes XX).
C7_AllFallback ==
    BulkReturned /\ pre.token = "" /\ NoOfflineDatabases /\ DOMAIN pre.store = {}
    => /\ DOMAIN call.results = ArgSet(call.arg)
       /\ \A ip \in DOMAIN call.results : AllUnknown(call.results[ip])

\* C7 amended: with no token, no offline databases, an empty store and an
\* empty cache, bulk_lookup returns one record per distinct input IP, and
\* the record of every IP outside the private ranges has every string
\* field at Unknown (codes XX).
C7_PublicAllFallback ==
    call.op = "bulk" /\ pre.token = "" /\ NoOfflineDatabases
        /\ DOMAIN pre.store = {} /\ DOMAIN pre.cache = {}
    => /\ call.status = "returned"
       /\ DOMAIN call.results = ArgSet(call.arg)
       /\ \A ip \in DOMAIN call.results :
             ~InPrivateRange(ip) => AllUnknown(call.results[ip])

\* C7 witness: such a batch, holding a public IP twice, has returned.
C7_Witness ==
    /\ BulkReturned /\ pre.token = "" /\ NoOfflineDatabases
    /\ DOMAIN pre.store = {} /\ DOMAIN pre.cache = {}
    /\ call.arg = <<PublicA, PublicA>>
    /\ PublicA \in DOMAIN call.results

\* C8: for every IP of a batch, bulk_lookup yields the field values and
\* the source that get_ip_info yields for that IP alone from the state in
\* which the batch started.
C8_BulkAsSingle ==
    BulkReturned
    => \A ip \in ArgSet(call.arg) :
          ReturnsSame(call.results[ip], GetIpInfo(PreState, ip, PreEnv))

\* C9: get_ip_info twice in succession on a public IP returns the same
\* field values both times; the second call raises the stored query_count
\* by exactly one and last_updated does not move backwards.
C9_Idempotent ==
    /\ call.op = "single" /\ prev.op = "single" /\ prev.arg = call.arg
    /\ prev.status = "returned" /\ ~InPrivateRange(call.arg[1])
    => LET ip == call.arg[1]
       IN /\ call.status = "returned"
          /\ FieldsAgree(prev.ret, call.ret)
          /\ store[ip]["query_count"] = pre.store[ip]["query_count"] + 1
          /\ store[ip]["last_updated"] >= pre.store[ip]["last_updated"]

\* C10: the durable store never holds a record for which no tier
\* produced data.
C10_StoreHoldsResolvedOnly == \A ip \in DOMAIN store : ~NoDataRow(store[ip])

\* C11: when a get_ip_info or bulk_lookup call returns, every IP of the call
\* that neither the store nor the cache held when the call started (so that
\* its record was resolved: private, offline, online or fallback) is in the
\* in-memory cache, stamped with the time of the resolution.
C11_WriteThrough ==
    call.status = "returned"
    => \A ip \in ArgSet(call.arg) :
          ip \notin DOMAIN pre.store /\ ip \notin DOMAIN pre.cache
          => /\ ip \in DOMAIN cache
             /\ "timestamp" \in DOMAIN cache[ip]
             /\ cache[ip]["timestamp"].t = now

\* C12: _store_ip_data on an IP in the store leaves the one row of that IP
\* with the previous query_count plus one; on an IP absent from the store
\* it leaves one row with query_count 1.
C12_UpsertCounts ==
    \A t \in Threads :
       thr[t].pc = "store_committed"
       => /\ thr[t].ip \in DOMAIN store
          /\ store[thr[t].ip]["ip"] = thr[t].ip
          /\ store[thr[t].ip]["query_count"] = thr[t].before + 1

\* C12 witness: an upsert has been committed on an IP that had a row with
\* query_count 2 (the first upsert of that IP had none).
C12_Witness ==
    \E t \in Threads :
       /\ thr[t].pc = "store_committed" /\ thr[t].op = "store"
       /\ thr[t].before = 2
       /\ store[thr[t].ip]["query_count"] = 3

\* C13: the SELECT of a read and its UPDATE are in one db_lock critical
\* section, and whenever no thread is inside a critical section the
\* query_count of every row equals the number of reads that hit and of
\* upserts completed on it since the row was created: no update is lost.
C13_NoLostUpdate ==
    /\ \A t \in Threads :
          thr[t].pc \in {"get_locked", "get_selected", "get_hit", "get_missed",
                         "store_locked", "store_committed"}
          => db_lock = t
    /\ db_lock = 0
       => \A ip \in DOMAIN store : store[ip]["query_count"] = finished[ip]

\* C13 witness: a read of a stored IP has updated the row inside its
\* critical section while another thread waits for the lock to upsert the
\* same IP, after three operations completed on that row.
C13_Witness ==
    \E t, u \in Threads :
       /\ thr[t].pc = "get_hit" /\ db_lock = t /\ thr[t].ip = PublicA
       /\ thr[u].pc = "store_wait" /\ thr[u].ip = PublicA
       /\ finished[PublicA] = 2
       /\ store[PublicA]["query_count"] = 3

\* C14: the query_count of an IP never decreases and its last_updated
\* never moves backwards, whatever store operations come in between.
C14_Monotonic ==
    \A ip \in DOMAIN store \cap DOMAIN last :
       /\ store[ip]["query_count"] >= last[ip]["query_count"]
       /\ store[ip]["last_updated"] >= last[ip]["last_updated"]

\* C15: while a _save_cache execution has not done its rename, also after
\* it was interrupted, the canonical cache file holds the complete document
\* saved before; at every instant the canonical file is the complete old
\* or the complete new document.
C15_CrashSafe ==
    /\ file_complete
    /\ saver.pc # "idle" => cache_file = old_file
    /\ saver.pc = "idle" => cache_file \in {old_file, saver.to_save}

\* C15 witness: a save was interrupted with a part of a new two-entry
\* document in the temp file, a one-entry document being the canonical file.
C15_Witness ==
    /\ saver.pc = "dead"
    /\ temp_file.exists /\ ~temp_file.complete
    /\ Cardinality(temp_file.keys) = 1
    /\ Cardinality(DOMAIN saver.to_save) = 2
    /\ Cardinality(DOMAIN cache_file) = 1
    /\ cache_file = old_file

\* C16: a thread whose online request is in flight (the request of
\* _get_ipinfo_data inside local_db.get_ip_info, reached from get_ip_info,
\* the first pass and process_ip of bulk_import_from_logs, or the request
\* of _get_online_info in get_ip_info and in fetch_online) holds neither
\* db_lock nor _cache_lock; the locks are taken after the answer, to commit.
C16_NoLockAcrossRequest ==
    \A t \in Threads :
        svc[t].pc \in {"local_request", "request"}
        => db_lock # t /\ cache_lock # t

\* the request of a get_ip_info is in flight while a process_ip worker,
\* whose own request has returned, holds db_lock to commit its record
C16_Witness ==
    \E t, u \in Threads :
        /\ svc[t].op = "single" /\ svc[t].pc = "request"
        /\ svc[u].op = "import" /\ svc[u].pc = "db_locked" /\ db_lock = u
        /\ Get(svc[u].info, "source", "") = "ipinfo_api"

\* C17: every mutation of the in-memory cache (insert, overwrite, eviction
\* of an expired entry on read, removal by clear_cache) is made by a thread
\* that holds _cache_lock at that moment.
C17_MutationsLocked ==
    mutated.kind # "none" => mutated.lock = mutated.by

\* C18: when no fetch_online is running (the pool of the batch has been
\* joined), online_hits has grown by exactly the number of online lookups
\* that succeeded, whatever the interleaving of the workers.
C18_OnlineHitsExact ==
    (\A t \in Threads : svc[t].op # "fetch")
    => stats["online_hits"] = successes

\* every order of the elements of the set s
RECURSIVE Orders(_)
Orders(s) ==
    IF s = {} THEN {<<>>}
    ELSE UNION {{<<i>> \o o : o \in Orders(s \ {i})} : i \in s}

\* the results after the as_completed loop has taken the futures in the
\* given order
RECURSIVE CollectInOrder(_, _, _)
CollectInOrder(results, ch, order) ==
    IF order = <<>> THEN results
    ELSE CollectInOrder(
            CollectOne(results, ch, bulk.online_ips[Head(order)],
                       bulk.futures[Head(order)].info, now).results,
            CollectOne(results, ch, bulk.online_ips[Head(order)],
                       bulk.futures[Head(order)].info, now).cache,
            Tail(order))

\* the map bulk_lookup returns when the futures complete in the given order
ReturnedInOrder(order) ==
    FillMissing(CollectInOrder(bulk.results, cache, order), bulk.ip_list, now)

\* every worker has finished and the as_completed loop has taken nothing
AllFetched ==
    /\ bulk.pc = "phaseB"
    /\ \A i \in DOMAIN bulk.futures : bulk.futures[i].state = "done"

\* C19: whatever the outcomes of the online calls of a batch, every order
\* in which the workers complete gives the same returned record for every
\* IP.
C19_OrderIndependent ==
    AllFetched
    => \A o1, o2 \in Orders(DOMAIN bulk.futures) :
          ReturnedInOrder(o1) = ReturnedInOrder(o2)

\* C20: an IP that occurs several times in the input list is handed to the
\* online resolver at most once per batch.
C20_Deduplicated ==
    bulk.pc = "phaseB"
    => \A i, j \in DOMAIN bulk.online_ips :
          bulk.online_ips[i] = bulk.online_ips[j] => i = j

\* C23: every failed online request of a batch (a timeout, an exception, a
\* status other than 200) has been counted in the errors counter.
C23_FailuresCounted ==
    bulk.pc = "phaseB"
    => stats["errors"] >=
          Cardinality({i \in DOMAIN bulk.futures :
                          /\ bulk.futures[i].state # "pending"
                          /\ ~Truthy(bulk.futures[i].info)})

\* C29: a row of the store that exists before and after a step has the
\* same first_seen after it as before: reads, re-resolutions and upserts
\* leave first_seen as it was when the row was created.
C29_FirstSeenKept ==
    [][\A ip \in DOMAIN store \cap DOMAIN store' :
          store'[ip]["first_seen"] = store[ip]["first_seen"]]_vars

\* C30: every entry of the in-memory cache carries its timestamp as a
\* datetime, never as the isoformat string.
C30_TimestampIsDatetime ==
    \A ip \in DOMAIN cache :
        /\ "timestamp" \in DOMAIN cache[ip]
        /\ cache[ip]["timestamp"].kind = "datetime"

\* C21: a bulk_lookup call on a non-empty list has not written the cache
\* file while its first pass and its workers run, and has written it
\* exactly once when the call has ended.
C21_SavedOncePerBatch ==
    call.op = "bulk" /\ call.arg # <<>>
    => /\ call.status = "running" => call.writes = 0
       /\ call.status # "running" => call.writes = 1

\* thread t holds or waits for db_lock; for _cache_lock
AtDbLock(t) == db_lock = t \/ svc[t].pc \in {"select_wait", "db_wait"}
AtCacheLock(t) == cache_lock = t \/ svc[t].pc = "cache_wait"

\* C28: no thread holds or waits for db_lock and _cache_lock at the same
\* time, no thread waits for a lock it holds, and every thread that waits
\* for a lock gets it.
C28_DeadlockFree ==
    /\ [](\A t \in Threads :
            /\ ~(AtDbLock(t) /\ AtCacheLock(t))
            /\ ~(db_lock = t /\ svc[t].pc \in {"select_wait", "db_wait"})
            /\ ~(cache_lock = t /\ svc[t].pc = "cache_wait"))
    /\ \A t \in Threads :
          /\ (svc[t].pc \in {"select_wait", "db_wait"}) ~> (db_lock = t)
          /\ (svc[t].pc = "cache_wait") ~> (cache_lock = t)

\* one thread waits for _cache_lock, held by the other, which is not at
\* db_lock; db_lock is or has been used by the waiting get_ip_info
C28_Witness ==
    \E t, u \in Threads :
        /\ svc[t].op = "single" /\ svc[t].pc = "cache_wait"
        /\ svc[t].ip \in DOMAIN store
        /\ cache_lock = u /\ svc[u].pc = "cache_locked" /\ db_lock = 0


\* a string of exactly four numeric dot-separated parts
WellFormedIp(ip) == Len(ip) = 4 /\ \A i \in 1..Len(ip) : ip[i] # NonNumeric

\* C25: the two _is_private_ip variants agree on every string, and every
\* string that is not exactly four numeric octets is classified not private
C25_MalformedNotPrivate ==
    fn = "_is_private_ip" =>
        /\ out.enhanced = out.db
        /\ ~WellFormedIp(arg) => ~out.enhanced /\ ~out.db


\* the full field set of an offline record
OfflineFieldSet ==
    {"country", "country_name", "country_code", "continent",
     "continent_code", "region", "city", "asn", "as_name", "as_domain",
     "org", "timezone"}

\* C26: for every combination of readers and per-table hits,
\* _get_offline_info on a public IP returns None or a record with every
\* field of the full set
C26_FullFieldSetOrNone ==
    fn = "_get_offline_info" =>
        ~Truthy(out) \/ OfflineFieldSet \subseteq DOMAIN out


\* the key of the API's JSON that _get_ipinfo_data reads a field from
\* (lines 170-178); country comes from country_name or else country
OnlineSupplies(json, f) ==
    CASE f = "country" -> "country_name" \in DOMAIN json \/ "country" \in DOMAIN json
      [] f = "country_code" -> "country" \in DOMAIN json
      [] OTHER -> f \in DOMAIN json

\* C22: when both tiers supply data, each field of the merged record is the
\* online value where the online response supplied it and the offline value
\* otherwise, and source is the composite tag mmdb+ipinfo_api
C22_OnlinePrecedence ==
    fn = "merge" =>
        /\ out["source"] = "mmdb+ipinfo_api"
        /\ \A f \in DOMAIN MmdbFields(arg.lite) \ {"source"} :
              IF OnlineSupplies(arg.online, f)
              THEN out[f] = IpinfoFields(arg.online)[f]
              ELSE out[f] = MmdbFields(arg.lite)[f]


\* the entries of a cache file whose timestamp does not parse
Corrupt(doc) ==
    {ip \in DOMAIN doc : "timestamp" \in DOMAIN doc[ip]
                           /\ doc[ip]["timestamp"] = BadTimestamp}

\* C24: _load_cache loads every well-formed entry of the file and leaves no
\* entry with an unparsable timestamp in the in-memory cache
C24_CorruptEntriesDropped ==
    fn = "_load_cache" => DOMAIN out = DOMAIN arg \ Corrupt(arg)


\* C27: under every interleaving of concurrent _save_cache executions the
\* canonical cache file is a complete document, never a partly written one
C27_CanonicalNeverPartial ==
    file_complete

====
